---- MODULE Spec2Model ----
(***************************************************************************)
(* A model of the Zenith language server: the project-graph cache and its  *)
(* invalidation, root detection and graph building over a file system,     *)
(* the region classifier, the script symbol and import extractors, the     *)
(* completion handler and the diagnostics engine.                          *)
(*                                                                         *)
(* Text is a sequence of one-character strings; offsets are 0-based as in  *)
(* the source, so text[i + 1] is the character at offset i.  A path is the *)
(* sequence of its segments ("/w/src" is << "w", "src" >> with each name a *)
(* sequence of characters) and << >> is the file-system root.  An optional *)
(* value (T | null | undefined) is None or Some(v).                        *)
(***************************************************************************)
EXTENDS Integers, Sequences, FiniteSets, TLC

VARIABLES
    fs,             \* the paths that exist on disk
    fsBefore,       \* the disk as it was before the latest change to it
    projectGraphs,  \* the cache: project root -> ProjectGraph
    documents,      \* the open documents, in the order they were opened
    builds,         \* root -> number of buildProjectGraph(root) calls so far
    removals,       \* root -> number of entries of root deleted so far
    event,          \* the handler that ran last, with its inputs and its reply
    sent,           \* the diagnostics notifications the last handler sent
    reply,          \* the completion list the last handler returned, if it was a request
    call            \* a function of the server applied on its own: name, argument, result

cacheVars == << fs, fsBefore, projectGraphs, documents, builds, removals, event, sent >>

vars == << fs, fsBefore, projectGraphs, documents, builds, removals, event, sent, reply, call >>

-----------------------------------------------------------------------------
(* Optional values *)

None == << >>
Some(v) == << v >>
IsSome(o) == Len(o) = 1
The(o) == o[1]

-----------------------------------------------------------------------------
(* Bounds of the model *)

MaxBuilds == 2

-----------------------------------------------------------------------------
(* Characters and strings *)

Upper == { "A","B","C","D","E","F","G","H","I","J","K","L","M",
           "N","O","P","Q","R","S","T","U","V","W","X","Y","Z" }
Lower == { "a","b","c","d","e","f","g","h","i","j","k","l","m",
           "n","o","p","q","r","s","t","u","v","w","x","y","z" }
Digits == { "0","1","2","3","4","5","6","7","8","9" }
Letters == Upper \cup Lower
\* \s
Space == { " ", "\t", "\n", "\r" }
\* \w
WordChars == Letters \cup Digits \cup { "_" }
\* [a-zA-Z_$] and [a-zA-Z0-9_$]
IdentStart == Letters \cup { "_", "$" }
IdentRest == Letters \cup Digits \cup { "_", "$" }
Quotes == { "\"", "'" }

ToLowerChar(c) ==
    LET UpperSeq == <<"A","B","C","D","E","F","G","H","I","J","K","L","M","N","O","P","Q","R","S","T","U","V","W","X","Y","Z">>
        LowerSeq == <<"a","b","c","d","e","f","g","h","i","j","k","l","m","n","o","p","q","r","s","t","u","v","w","x","y","z">>
    IN  IF c \in Upper THEN LowerSeq[CHOOSE i \in 1..26 : UpperSeq[i] = c] ELSE c

toLowerCase(s) == [ i \in 1..Len(s) |-> ToLowerChar(s[i]) ]

Max(a, b) == IF a >= b THEN a ELSE b
Min(a, b) == IF a <= b THEN a ELSE b

\* The character at offset i, and s.substring(a, b)
At(s, i) == s[i + 1]
substring(s, a, b) ==
    SubSeq(s, Min(Max(Min(a, b), 0), Len(s)) + 1, Min(Max(Max(a, b), 0), Len(s)))
substringFrom(s, a) == substring(s, a, Len(s))

endsWith(s, suffix) ==
    Len(s) >= Len(suffix) /\ SubSeq(s, Len(s) - Len(suffix) + 1, Len(s)) = suffix

startsWith(s, prefix) ==
    Len(s) >= Len(prefix) /\ SubSeq(s, 1, Len(prefix)) = prefix

\* Whether lit stands in s at offset i, as written or whatever the letter case
LitAt(s, i, lit) ==
    /\ i >= 0
    /\ i + Len(lit) <= Len(s)
    /\ \A k \in 1..Len(lit) : s[i + k] = lit[k]

LitAtCI(s, i, lit) ==
    /\ i >= 0
    /\ i + Len(lit) <= Len(s)
    /\ \A k \in 1..Len(lit) : ToLowerChar(s[i + k]) = ToLowerChar(lit[k])

\* The first offset from i on whose character is not in set (Len(s) if none):
\* where a greedy [set]* that starts at i ends
RECURSIVE SkipIn(_, _, _)
SkipIn(s, i, set) ==
    IF i < Len(s) /\ At(s, i) \in set THEN SkipIn(s, i + 1, set) ELSE i

\* The least and the greatest of a set of offsets, none when it is empty
Least(offsets, none) ==
    IF offsets = {} THEN none ELSE CHOOSE i \in offsets : \A j \in offsets : i <= j
Greatest(offsets, none) ==
    IF offsets = {} THEN none ELSE CHOOSE i \in offsets : \A j \in offsets : j <= i

\* The leftmost of the matches a pattern has at the offsets of a text (each
\* None, or a match that holds its index), None when there is none
FirstMatch(matches) ==
    IF matches \subseteq { None } THEN None
    ELSE CHOOSE m \in matches \ { None } :
           \A n \in matches \ { None } : The(m).index <= The(n).index

\* The first offset from i on whose character is in set (Len(s) if none):
\* where a greedy [^set]* that starts at i ends
SkipNotIn(s, i, set) ==
    Least({ k \in i..(Len(s) - 1) : At(s, k) \in set }, Max(i, Len(s)))

\* s.indexOf(sub, from) and s.lastIndexOf(sub); -1 when sub is not there
IndexOfFrom(s, sub, from) ==
    Least({ k \in from..(Len(s) - Len(sub)) : LitAt(s, k, sub) }, -1)

indexOf(s, sub) == IndexOfFrom(s, sub, 0)

IndexOfFromCI(s, sub, from) ==
    Least({ k \in from..(Len(s) - Len(sub)) : LitAtCI(s, k, sub) }, -1)

LastIndexBefore(s, c, i) ==
    Greatest({ k \in 0..Min(i, Len(s) - 1) : At(s, k) = c }, -1)

lastIndexOf(s, c) == LastIndexBefore(s, c, Len(s) - 1)

includes(s, sub) == indexOf(s, sub) >= 0

\* s left as it is, white space and all
trimNothing(s) == s

\* s.trim()
trim(s) ==
    SubSeq(s, SkipIn(s, 0, Space) + 1,
           Greatest({ k \in 0..(Len(s) - 1) : At(s, k) \notin Space }, -1) + 1)

\* s.split(sep), sep one character
split(s, sep) ==
    LET RECURSIVE SplitFrom(_)
        Piece(from, j) ==
            IF j >= Len(s) THEN << SubSeq(s, from + 1, Len(s)) >>
            ELSE << SubSeq(s, from + 1, j) >> \o SplitFrom(j + 1)
        SplitFrom(from) == Piece(from, SkipNotIn(s, from, { sep }))
    IN  SplitFrom(0)

\* TextDocument.positionAt and TextDocument.offsetAt
positionAt(text, offset) ==
    LET Position(o) ==
            [ line |-> Cardinality({ k \in 0..(o - 1) : At(text, k) = "\n" }),
              character |-> o - (LastIndexBefore(text, "\n", o - 1) + 1) ]
    IN  Position(Min(Max(offset, 0), Len(text)))

offsetAt(text, position) ==
    LET starts == { 0 } \cup { k + 1 : k \in { j \in 0..(Len(text) - 1) : At(text, j) = "\n" } }
        lines == Cardinality(starts)
        StartOf(l) == CHOOSE st \in starts : Cardinality({ t \in starts : t < st }) = l
        EndOf(l) == IF l + 1 < lines THEN StartOf(l + 1) ELSE Len(text)
    IN  IF position.line >= lines THEN Len(text)
        ELSE IF position.line < 0 THEN 0
        ELSE Min(StartOf(position.line) + position.character, EndOf(position.line))

\* An insertion-ordered Map, as a sequence of [key, value]: set, has, get
MapHas(m, key) == \E i \in 1..Len(m) : m[i].key = key

MapGet(m, key) == m[CHOOSE i \in 1..Len(m) : m[i].key = key].value

MapPut(m, key, value) ==
    IF MapHas(m, key)
    THEN [ i \in 1..Len(m) |-> IF m[i].key = key THEN [ key |-> key, value |-> value ] ELSE m[i] ]
    ELSE Append(m, [ key |-> key, value |-> value ])

-----------------------------------------------------------------------------
(* metadata/directive-metadata.ts *)

\* The characters '.' does not match
LineTerminators == { "\n", "\r" }

\* The keys of DIRECTIVES, in the order of the table
DirectiveNames == << <<"z","e","n",":","i","f">>, <<"z","e","n",":","f","o","r">>, <<"z","e","n",":","e","f","f","e","c","t">>, <<"z","e","n",":","s","h","o","w">> >>

DirectiveCategory(name) ==
    CASE name = <<"z","e","n",":","i","f">> -> "control-flow"
      [] name = <<"z","e","n",":","f","o","r">> -> "iteration"
      [] name = <<"z","e","n",":","e","f","f","e","c","t">> -> "reactive-effect"
      [] OTHER -> "conditional-visibility"

\* The properties an object literal inherits from Object.prototype: what the
\* 'in' operator and a bracket lookup find besides the table's own keys
ObjectPrototypeKeys ==
    { <<"c","o","n","s","t","r","u","c","t","o","r">>, <<"t","o","S","t","r","i","n","g">>, <<"v","a","l","u","e","O","f">>, <<"h","a","s","O","w","n","P","r","o","p","e","r","t","y">>,
      <<"i","s","P","r","o","t","o","t","y","p","e","O","f">>, <<"p","r","o","p","e","r","t","y","I","s","E","n","u","m","e","r","a","b","l","e">>, <<"t","o","L","o","c","a","l","e","S","t","r","i","n","g">>, <<"_","_","p","r","o","t","o","_","_">> }

\* key in table, for a table written as an object literal with these own keys
InObject(key, ownKeys) == key \in ownKeys \/ key \in ObjectPrototypeKeys

SeqToSet(q) == { q[i] : i \in 1..Len(q) }

isDirective(name) == InObject(name, SeqToSet(DirectiveNames))

getDirectiveNames == DirectiveNames

\* canPlaceDirective without the test for slot
canPlaceDirectiveAnywhere(directiveName, elementType) ==
    InObject(directiveName, SeqToSet(DirectiveNames))

canPlaceDirective(directiveName, elementType) ==
    LET \* Every directive's placement is ['element', 'component']
        DirectivePlacement(name) == { "element", "component" }
    IN  IF ~InObject(directiveName, SeqToSet(DirectiveNames)) THEN FALSE
        ELSE IF elementType = "slot" THEN FALSE
        ELSE elementType \in DirectivePlacement(directiveName)

\* ForTail with a '.' that matches line terminators too
ForTailAcrossLines(s, p) ==
    LET q == SkipIn(s, p, Space)
        r == q + 2
        t == SkipIn(s, r, Space)
        fits == { x \in [ from : (r + 1)..t, to : (r + 2)..Len(s) ] :
                    /\ x.from < x.to
                    /\ \A k \in x.to..(Len(s) - 1) : At(s, k) \in Space }
    IN  IF q = p \/ ~LitAt(s, q, <<"i","n">>) \/ fits = {} THEN None
        ELSE Some(CHOOSE x \in fits :
                    \A y \in fits : y.from < x.from \/ (y.from = x.from /\ y.to <= x.to))

\* \s+in\s+(.+)\s*$ from offset p of s: the offsets [from, to) of group 3, the
\* engine's first success (the longest \s+, then the longest .+), or None
ForTail(s, p) ==
    LET q == SkipIn(s, p, Space)
        r == q + 2
        t == SkipIn(s, r, Space)
        fits == { x \in [ from : (r + 1)..t, to : (r + 2)..Len(s) ] :
                    /\ x.from < x.to
                    /\ \A k \in x.from..(x.to - 1) : At(s, k) \notin LineTerminators
                    /\ \A k \in x.to..(Len(s) - 1) : At(s, k) \in Space }
    IN  IF q = p \/ ~LitAt(s, q, <<"i","n">>) \/ fits = {} THEN None
        ELSE Some(CHOOSE x \in fits :
                    \A y \in fits : y.from < x.from \/ (y.from = x.from /\ y.to <= x.to))

\* /^\s*([a-zA-Z_$][\w$]*)(?:\s*,\s*([a-zA-Z_$][\w$]*))?\s+in\s+(.+)\s*$/
parseForExpression(expression) ==
    LET s == expression
        a == SkipIn(s, 0, Space)
        b == SkipIn(s, a + 1, IdentRest)
        c == SkipIn(s, b, Space)
        d == SkipIn(s, c + 1, Space)
        e == SkipIn(s, d + 1, IdentRest)
        hasIndex == /\ c < Len(s) /\ At(s, c) = ","
                    /\ d < Len(s) /\ At(s, d) \in IdentStart
        withIndex == IF hasIndex THEN ForTail(s, e) ELSE None
        without == ForTail(s, b)
    IN  IF a >= Len(s) \/ At(s, a) \notin IdentStart THEN None
        ELSE IF IsSome(withIndex)
        THEN Some([ itemVar |-> substring(s, a, b),
                    indexVar |-> Some(substring(s, d, e)),
                    source |-> trim(substring(s, The(withIndex).from, The(withIndex).to)) ])
        ELSE IF IsSome(without)
        THEN Some([ itemVar |-> substring(s, a, b),
                    indexVar |-> None,
                    source |-> trim(substring(s, The(without).from, The(without).to)) ])
        ELSE None

-----------------------------------------------------------------------------
(* The server: scanning the text of a document *)

extractStates(script) ==
    LET \* state analysis: /state\s+([a-zA-Z_$][a-zA-Z0-9_$]*)\s*=\s*([^;\n]+)/ at
        \* offset i: the name, the initializer as matched and where the match ends.
        \* When the greedy \s* after '=' runs into ';', a line end it has swallowed
        \* or the end of the text, it gives white space back to the initializer.
        StateMatchAt(s, i) ==
            LET a == i + 5
                b == SkipIn(s, a, Space)
                c == SkipIn(s, b + 1, IdentRest)
                d == SkipIn(s, c, Space)
                p == d + 1
                q == SkipIn(s, p, Space)
                back == { x \in p..(q - 1) : At(s, x) # "\n" }
                k == CHOOSE x \in back : \A y \in back : y <= x
                Matched(from, to) ==
                    Some([ index |-> i, name |-> substring(s, b, c),
                           value |-> substring(s, from, to), end |-> to ])
            IN  IF \/ ~LitAt(s, i, <<"s","t","a","t","e">>)
                   \/ b = a \/ b >= Len(s) \/ At(s, b) \notin IdentStart
                   \/ d >= Len(s) \/ At(s, d) # "="
                THEN None
                ELSE IF q < Len(s) /\ At(s, q) # ";"
                THEN Matched(q, SkipNotIn(s, q, { ";", "\n" }))
                ELSE IF back # {}
                THEN Matched(k, SkipNotIn(s, k, { ";", "\n" }))
                ELSE None
        \* while ((match = stateRegex.exec(script)) !== null)
        \*     states.set(match[1], match[2].trim())
        RECURSIVE StatesFrom(_, _)
        Set(states, match) ==
            IF ~IsSome(match) THEN states
            ELSE StatesFrom(The(match).end,
                            MapPut(states, The(match).name, trim(The(match).value)))
        StatesFrom(i, states) ==
            Set(states, FirstMatch({ StateMatchAt(script, k) : k \in i..(Len(script) - 1) }))
    IN  StatesFrom(0, << >>)

extractFunctions(script) ==
    LET \* function\s+(name)\s*\(([^)]*)\) at offset j
        FunctionTail(s, i, j, isAsync) ==
            LET a == j + 8
                b == SkipIn(s, a, Space)
                c == SkipIn(s, b + 1, IdentRest)
                d == SkipIn(s, c, Space)
                e == SkipNotIn(s, d + 1, { ")" })
            IN  IF \/ ~LitAt(s, j, <<"f","u","n","c","t","i","o","n">>)
                   \/ b = a \/ b >= Len(s) \/ At(s, b) \notin IdentStart
                   \/ d >= Len(s) \/ At(s, d) # "("
                   \/ e >= Len(s)
                THEN None
                ELSE Some([ index |-> i, name |-> substring(s, b, c),
                            params |-> substring(s, d + 1, e),
                            isAsync |-> isAsync, end |-> e + 1 ])
        \* /(async\s+)?function\s+([a-zA-Z_$][a-zA-Z0-9_$]*)\s*\(([^)]*)\)/ at offset i
        FunctionMatchAt(s, i) ==
            IF LitAt(s, i, <<"a","s","y","n","c">>) /\ SkipIn(s, i + 5, Space) > i + 5
            THEN FunctionTail(s, i, SkipIn(s, i + 5, Space), TRUE)
            ELSE FunctionTail(s, i, i, FALSE)
        \* /(?:const|let)\s+([a-zA-Z_$][a-zA-Z0-9_$]*)\s*=\s*(async\s+)?\([^)]*\)\s*=>/
        \* at offset i
        ArrowMatchAt(s, i) ==
            LET a == IF LitAt(s, i, <<"c","o","n","s","t">>) THEN i + 5 ELSE i + 3
                b == SkipIn(s, a, Space)
                c == SkipIn(s, b + 1, IdentRest)
                d == SkipIn(s, c, Space)
                e == SkipIn(s, d + 1, Space)
                isAsync == LitAt(s, e, <<"a","s","y","n","c">>) /\ SkipIn(s, e + 5, Space) > e + 5
                f == IF isAsync THEN SkipIn(s, e + 5, Space) ELSE e
                g == SkipNotIn(s, f + 1, { ")" })
                h == SkipIn(s, g + 1, Space)
            IN  IF \/ ~(LitAt(s, i, <<"c","o","n","s","t">>) \/ LitAt(s, i, <<"l","e","t">>))
                   \/ b = a \/ b >= Len(s) \/ At(s, b) \notin IdentStart
                   \/ d >= Len(s) \/ At(s, d) # "="
                   \/ f >= Len(s) \/ At(s, f) # "("
                   \/ g >= Len(s)
                   \/ ~LitAt(s, h, <<"=",">">>)
                THEN None
                ELSE Some([ index |-> i, name |-> substring(s, b, c), params |-> << >>,
                            isAsync |-> isAsync, end |-> h + 2 ])
        \* while ((match = regex.exec(script)) !== null) functions.push(...),
        \* for the function pattern and then for the arrow pattern
        Push(match) ==
            << [ name |-> match.name, params |-> match.params, isAsync |-> match.isAsync ] >>
        RECURSIVE FunctionsFrom(_)
        NextFunction(match) ==
            IF ~IsSome(match) THEN << >>
            ELSE Push(The(match)) \o FunctionsFrom(The(match).end)
        FunctionsFrom(i) ==
            NextFunction(FirstMatch({ FunctionMatchAt(script, k) : k \in i..(Len(script) - 1) }))
        RECURSIVE ArrowsFrom(_)
        NextArrow(match) ==
            IF ~IsSome(match) THEN << >>
            ELSE Push(The(match)) \o ArrowsFrom(The(match).end)
        ArrowsFrom(i) ==
            NextArrow(FirstMatch({ ArrowMatchAt(script, k) : k \in i..(Len(script) - 1) }))
    IN  FunctionsFrom(0) \o ArrowsFrom(0)

extractLoopVariables(text) ==
    LET \* /zen:for\s*=\s*["']([^"']+)["']/ at offset i: the value and the match's end
        LoopMatchAt(s, i) ==
            LET a == SkipIn(s, i + 7, Space)
                b == SkipIn(s, a + 1, Space)
                c == SkipNotIn(s, b + 1, Quotes)
            IN  IF \/ ~LitAt(s, i, <<"z","e","n",":","f","o","r">>)
                   \/ a >= Len(s) \/ At(s, a) # "="
                   \/ b >= Len(s) \/ At(s, b) \notin Quotes
                   \/ c = b + 1 \/ c >= Len(s)
                THEN None
                ELSE Some([ index |-> i, value |-> substring(s, b + 1, c), end |-> c + 1 ])
        \* if (parsed) { vars.push(parsed.itemVar); if (parsed.indexVar) vars.push(...) }
        Push(parsed) ==
            IF ~IsSome(parsed) THEN << >>
            ELSE << The(parsed).itemVar >> \o The(parsed).indexVar
        RECURSIVE LoopVariablesFrom(_)
        Parse(match) ==
            IF ~IsSome(match) THEN << >>
            ELSE Push(parseForExpression(The(match).value))
                 \o LoopVariablesFrom(The(match).end)
        LoopVariablesFrom(i) ==
            Parse(FirstMatch({ LoopMatchAt(text, k) : k \in i..(Len(text) - 1) }))
    IN  LoopVariablesFrom(0)

\* text.match(/<script[^>]*>([\s\S]*?)<\/script>/i) from offset i on: where
\* the match and its group start and end, or None
ScriptMatchFrom(s, i) ==
    LET \* ([\s\S]*?)<\/script> after the '>' at offset openEnd
        Closed(k, openEnd, close) ==
            IF close < 0 THEN None
            ELSE Some([ index |-> k, contentStart |-> openEnd + 1,
                        contentEnd |-> close, end |-> close + 9 ])
        \* <script[^>]*> at offset k
        Opened(k, openEnd) ==
            IF ~LitAtCI(s, k, <<"<","s","c","r","i","p","t">>) \/ openEnd >= Len(s) THEN None
            ELSE Closed(k, openEnd, IndexOfFromCI(s, <<"<","/","s","c","r","i","p","t",">">>, openEnd + 1))
    IN  FirstMatch({ Opened(k, SkipNotIn(s, k + 7, { ">" })) : k \in i..(Len(s) - 1) })

getScriptContent(text) ==
    LET Content(match) ==
            IF IsSome(match)
            THEN substring(text, The(match).contentStart, The(match).contentEnd)
            ELSE << >>
    IN  Content(ScriptMatchFrom(text, 0))

\* inExpression decided by the braces alone
InExpressionByBraces(before, inScript, inStyle) ==
    lastIndexOf(before, "{") > lastIndexOf(before, "}")

\* lastBraceOpen > lastBraceClose && !inScript && !inStyle
InExpression(before, inScript, inStyle) ==
    /\ lastIndexOf(before, "{") > lastIndexOf(before, "}")
    /\ ~inScript /\ ~inStyle

getPositionContext(text, offset) ==
    LET \* The matches of /<name[^>]*>/gi in s from offset i on: their number
        RECURSIVE CountOpenTags(_, _, _)
        CountedTag(s, open, at) ==
            IF at < 0 THEN 0
            ELSE 1 + CountOpenTags(s, SkipNotIn(s, at + Len(open), { ">" }) + 1, open)
        CountOpenTags(s, i, open) ==
            CountedTag(s, open,
                       Least({ k \in i..(Len(s) - 1) :
                                 /\ LitAtCI(s, k, open)
                                 /\ SkipNotIn(s, k + Len(open), { ">" }) < Len(s) }, -1))
        \* The matches of a literal, whatever the letter case, in s from offset i on
        RECURSIVE CountLitCI(_, _, _)
        CountedLit(s, lit, at) ==
            IF at < 0 THEN 0 ELSE 1 + CountLitCI(s, at + Len(lit), lit)
        CountLitCI(s, i, lit) == CountedLit(s, lit, IndexOfFromCI(s, lit, i))
        \* before.match(/[a-zA-Z_$:@][a-zA-Z0-9_$:-]*$/): the leftmost start whose
        \* character opens a word and from which only word characters follow
        WordStart == IdentStart \cup { ":", "@" }
        WordRest == IdentRest \cup { ":", "-" }
        CurrentWord(before) ==
            substringFrom(before,
                          Least({ i \in 0..(Len(before) - 1) :
                                    /\ At(before, i) \in WordStart
                                    /\ \A k \in (i + 1)..(Len(before) - 1) :
                                          At(before, k) \in WordRest }, Len(before)))
        \* afterLastTag.match(/=["'][^"']*$/)
        QuoteMatch(afterLastTag) ==
            \E i \in 0..(Len(afterLastTag) - 2) :
                /\ At(afterLastTag, i) = "="
                /\ At(afterLastTag, i + 1) \in Quotes
                /\ \A k \in (i + 2)..(Len(afterLastTag) - 1) : At(afterLastTag, k) \notin Quotes
        \* afterLastTag.match(/<\/?([A-Za-z][A-Za-z0-9-]*)/): group 1, or None
        TagName(s, nameAt) ==
            IF nameAt < 0 THEN None
            ELSE Some(substring(s, nameAt, SkipIn(s, nameAt + 1, Letters \cup Digits \cup { "-" })))
        TagMatch(s) ==
            TagName(s, Least({ k + 1 : k \in { j \in 0..(Len(s) - 2) :
                                                 At(s, j) = "<" /\ At(s, j + 1) \in Letters } }
                             \cup { k + 2 : k \in { j \in 0..(Len(s) - 3) :
                                                      /\ At(s, j) = "<" /\ At(s, j + 1) = "/"
                                                      /\ At(s, j + 2) \in Letters } }, -1))
        \* The context, once the text before the offset has been measured
        Context(before, inScript, inStyle, lastTagOpen, inTag, currentWord) ==
            [ inScript |-> inScript, inStyle |-> inStyle, inTag |-> inTag,
              inExpression |-> InExpression(before, inScript, inStyle),
              inTemplate |-> ~inScript /\ ~inStyle,
              inAttributeValue |-> inTag /\ QuoteMatch(substringFrom(before, lastTagOpen)),
              tagName |-> IF inTag THEN TagMatch(substringFrom(before, lastTagOpen)) ELSE None,
              currentWord |-> currentWord,
              afterAt |-> endsWith(before, <<"@">>) \/ startsWith(currentWord, <<"@">>),
              afterColon |-> \/ endsWith(before, <<":">>)
                             \/ (startsWith(currentWord, <<":">>) /\ ~startsWith(currentWord, <<":">>)) ]
        Measured(before) ==
            Context(before,
                    CountOpenTags(before, 0, <<"<","s","c","r","i","p","t">>) > CountLitCI(before, 0, <<"<","/","s","c","r","i","p","t",">">>),
                    CountOpenTags(before, 0, <<"<","s","t","y","l","e">>) > CountLitCI(before, 0, <<"<","/","s","t","y","l","e",">">>),
                    lastIndexOf(before, "<"),
                    lastIndexOf(before, "<") > lastIndexOf(before, ">"),
                    CurrentWord(before))
    IN  Measured(substring(text, 0, offset))
-----------------------------------------------------------------------------
(* metadata/core-imports.ts, metadata/plugin-imports.ts, router.ts *)

Export(name, kind) == [ name |-> name, kind |-> kind ]

\* CORE_MODULES, PLUGIN_MODULES: the entries in the order of the tables
CORE_MODULES ==
    << [ module |-> <<"z","e","n","i","t","h">>,
         exports |-> << Export(<<"z","e","n","E","f","f","e","c","t">>, "function"), Export(<<"z","e","n","O","n","M","o","u","n","t">>, "function"),
                        Export(<<"z","e","n","O","n","D","e","s","t","r","o","y">>, "function"), Export(<<"z","e","n","O","n","U","p","d","a","t","e">>, "function"),
                        Export(<<"z","e","n","R","e","f">>, "function"), Export(<<"z","e","n","S","t","a","t","e">>, "function"),
                        Export(<<"z","e","n","M","e","m","o">>, "function"), Export(<<"z","e","n","B","a","t","c","h">>, "function"),
                        Export(<<"z","e","n","U","n","t","r","a","c","k">>, "function") >> ],
       [ module |-> <<"z","e","n","i","t","h","/","r","o","u","t","e","r">>,
         exports |-> << Export(<<"Z","e","n","L","i","n","k">>, "component"), Export(<<"u","s","e","R","o","u","t","e">>, "function"),
                        Export(<<"u","s","e","R","o","u","t","e","r">>, "function"), Export(<<"n","a","v","i","g","a","t","e">>, "function"),
                        Export(<<"p","r","e","f","e","t","c","h">>, "function"), Export(<<"i","s","A","c","t","i","v","e">>, "function"),
                        Export(<<"g","e","t","R","o","u","t","e">>, "function") >> ] >>

PLUGIN_MODULES ==
    << [ module |-> <<"z","e","n","i","t","h",":","c","o","n","t","e","n","t">>, required |-> FALSE,
         exports |-> << Export(<<"z","e","n","C","o","l","l","e","c","t","i","o","n">>, "function"), Export(<<"g","e","t","C","o","l","l","e","c","t","i","o","n">>, "function"),
                        Export(<<"g","e","t","E","n","t","r","y">>, "function"), Export(<<"u","s","e","Z","e","n","O","r","d","e","r">>, "function") >> ],
       [ module |-> <<"z","e","n","i","t","h",":","i","m","a","g","e">>, required |-> FALSE,
         exports |-> << Export(<<"I","m","a","g","e">>, "function"), Export(<<"g","e","t","I","m","a","g","e">>, "function") >> ] >>

\* Object.keys(table)
ModuleNames(table) == [ i \in 1..Len(table) |-> table[i].module ]

getCoreModuleNames == ModuleNames(CORE_MODULES)
getPluginModuleNames == ModuleNames(PLUGIN_MODULES)

\* table[key]: the entry of an own key, what Object.prototype holds under an
\* inherited one (a value that is no metadata), undefined otherwise
Lookup(table, key) ==
    IF \E i \in 1..Len(table) : table[i].module = key
    THEN Some(table[CHOOSE i \in 1..Len(table) : table[i].module = key])
    ELSE IF key \in ObjectPrototypeKeys
    THEN Some([ inherited |-> key ])
    ELSE None

getCoreModule(moduleName) == Lookup(CORE_MODULES, moduleName)

isCoreModule(moduleName) == InObject(moduleName, SeqToSet(ModuleNames(CORE_MODULES)))

getPluginModule(moduleName) == Lookup(PLUGIN_MODULES, moduleName)

isPluginModule(moduleName) == startsWith(moduleName, <<"z","e","n","i","t","h",":">>)

isKnownPluginModule(moduleName) == InObject(moduleName, SeqToSet(ModuleNames(PLUGIN_MODULES)))

ROUTER_HOOKS ==
    << [ name |-> <<"u","s","e","R","o","u","t","e">>, owner |-> <<"R","o","u","t","e","r"," ","H","o","o","k"," ","(","z","e","n","i","t","h","/","r","o","u","t","e","r",")">> ],
       [ name |-> <<"u","s","e","R","o","u","t","e","r">>, owner |-> <<"R","o","u","t","e","r"," ","H","o","o","k"," ","(","z","e","n","i","t","h","/","r","o","u","t","e","r",")">> ] >>

ZENLINK_PROPS ==
    << [ name |-> <<"t","o">>, type |-> <<"s","t","r","i","n","g">>, required |-> TRUE ],
       [ name |-> <<"p","r","e","l","o","a","d">>, type |-> <<"b","o","o","l","e","a","n">>, required |-> FALSE ],
       [ name |-> <<"r","e","p","l","a","c","e">>, type |-> <<"b","o","o","l","e","a","n">>, required |-> FALSE ],
       [ name |-> <<"c","l","a","s","s">>, type |-> <<"s","t","r","i","n","g">>, required |-> FALSE ],
       [ name |-> <<"a","c","t","i","v","e","C","l","a","s","s">>, type |-> <<"s","t","r","i","n","g">>, required |-> FALSE ] >>

ROUTE_FIELDS ==
    << [ name |-> <<"p","a","t","h">>, type |-> <<"s","t","r","i","n","g">> ],
       [ name |-> <<"p","a","r","a","m","s">>, type |-> <<"R","e","c","o","r","d","<","s","t","r","i","n","g",","," ","s","t","r","i","n","g",">">> ],
       [ name |-> <<"q","u","e","r","y">>, type |-> <<"R","e","c","o","r","d","<","s","t","r","i","n","g",","," ","s","t","r","i","n","g",">">> ] >>

-----------------------------------------------------------------------------
(* imports.ts *)

parseZenithImports(script) ==
    LET \* \s+from\s+['"]([^'"]+)['"] at offset j: the module and the match's end
        FromTail(s, j) ==
            LET q == SkipIn(s, j, Space)
                t == SkipIn(s, q + 4, Space)
                u == SkipNotIn(s, t + 1, Quotes)
            IN  IF \/ q = j \/ ~LitAt(s, q, <<"f","r","o","m">>)
                   \/ t = q + 4 \/ t >= Len(s) \/ At(s, t) \notin Quotes
                   \/ u = t + 1 \/ u >= Len(s)
                THEN None
                ELSE Some([ module |-> substring(s, t + 1, u), end |-> u + 1 ])
        \* (?:\{([^}]+)\}|(\*\s+as\s+\w+)|(\w+))\s+from\s+['"]([^'"]+)['"] at offset j
        ImportClause(s, j) ==
            LET close == SkipNotIn(s, j + 1, { "}" })
                a == SkipIn(s, j + 1, Space)
                b == SkipIn(s, a + 2, Space)
                c == SkipIn(s, b, WordChars)
                w == SkipIn(s, j, WordChars)
                Clause(named, namespace, default, end) ==
                    Some([ named |-> named, namespace |-> namespace, default |-> default,
                           end |-> end ])
                From(clause, tail) ==
                    IF ~IsSome(tail) THEN None
                    ELSE Some([ named |-> clause.named, namespace |-> clause.namespace,
                                default |-> clause.default, module |-> The(tail).module ])
                WithTail(clause) ==
                    IF ~IsSome(clause) THEN None
                    ELSE From(The(clause), FromTail(s, The(clause).end))
            IN  WithTail(IF j >= Len(s) THEN None
                         ELSE IF At(s, j) = "{"
                         THEN IF close = j + 1 \/ close >= Len(s) THEN None
                              ELSE Clause(Some(substring(s, j + 1, close)), None, None, close + 1)
                         ELSE IF At(s, j) = "*"
                         THEN IF a = j + 1 \/ ~LitAt(s, a, <<"a","s">>) \/ b = a + 2 \/ c = b
                              THEN None
                              ELSE Clause(None, Some(substring(s, j, c)), None, c)
                         ELSE IF w = j THEN None
                         ELSE Clause(None, None, Some(substring(s, j, w)), w))
        \* /import\s+(type\s+)?(?:...)\s+from\s+['"]([^'"]+)['"]/ at offset i: with
        \* the type group when the rest matches after it, without it otherwise
        ImportMatchAt(s, i) ==
            LET Match(typed, plain) ==
                    IF IsSome(typed) THEN Some([ index |-> i, isType |-> TRUE ] @@ The(typed))
                    ELSE IF IsSome(plain) THEN Some([ index |-> i, isType |-> FALSE ] @@ The(plain))
                    ELSE None
                Import(a, b) ==
                    IF a = i + 6 THEN None
                    ELSE Match(IF LitAt(s, a, <<"t","y","p","e">>) /\ b > a + 4
                               THEN ImportClause(s, b) ELSE None,
                               ImportClause(s, a))
            IN  IF ~LitAt(s, i, <<"i","m","p","o","r","t">>) THEN None
                ELSE Import(SkipIn(s, i + 6, Space), SkipIn(s, SkipIn(s, i + 6, Space) + 4, Space))
        \* /import\s+['"]([^'"]+)['"]/ at offset i: the module
        SideEffectMatchAt(s, i) ==
            LET a == SkipIn(s, i + 6, Space)
                u == SkipNotIn(s, a + 1, Quotes)
            IN  IF \/ ~LitAt(s, i, <<"i","m","p","o","r","t">>) \/ a = i + 6
                   \/ a >= Len(s) \/ At(s, a) \notin Quotes
                   \/ u = a + 1 \/ u >= Len(s)
                THEN None
                ELSE Some([ index |-> i, module |-> substring(s, a + 1, u) ])
        \* part.split(/\s+as\s+/)[0]
        BeforeAs(part) ==
            substring(part, 0,
                      Least({ p \in 0..(Len(part) - 1) :
                                /\ At(part, p) \in Space
                                /\ LitAt(part, SkipIn(part, p, Space), <<"a","s">>)
                                /\ SkipIn(part, p, Space) + 2 < Len(part)
                                /\ At(part, SkipIn(part, p, Space) + 2) \in Space }, Len(part)))
        \* The specifiers of a named import list: { a, b as c, d }
        RECURSIVE NamedSpecifiers(_)
        Cleaned(cleaned, parts) ==
            (IF cleaned # << >> THEN << cleaned >> ELSE << >>) \o NamedSpecifiers(Tail(parts))
        NamedSpecifiers(parts) ==
            IF parts = << >> THEN << >>
            ELSE Cleaned(trim(BeforeAs(trim(Head(parts)))), parts)
        Specifiers(found) ==
            IF IsSome(found.named) THEN NamedSpecifiers(split(The(found.named), ","))
            ELSE IF IsSome(found.namespace) THEN << trim(The(found.namespace)) >>
            ELSE << The(found.default) >>
        \* moduleName.startsWith('zenith') || moduleName.startsWith('zenith:')
        IsZenithModule(moduleName) ==
            startsWith(moduleName, <<"z","e","n","i","t","h">>) \/ startsWith(moduleName, <<"z","e","n","i","t","h",":">>)
        \* What one line of the script adds to the imports, given line.match of
        \* the import pattern and of the side-effect pattern
        ImportsOfLine(number, importMatch, sideEffectMatch) ==
            IF IsSome(importMatch)
            THEN IF IsZenithModule(The(importMatch).module)
                 THEN << [ module |-> The(importMatch).module,
                           specifiers |-> Specifiers(The(importMatch)),
                           isType |-> The(importMatch).isType, line |-> number ] >>
                 ELSE << >>
            ELSE IF IsSome(sideEffectMatch) /\ IsZenithModule(The(sideEffectMatch).module)
            THEN << [ module |-> The(sideEffectMatch).module, specifiers |-> << >>,
                      isType |-> FALSE, line |-> number ] >>
            ELSE << >>
        RECURSIVE ImportsOfLines(_, _)
        ImportsOfLines(lines, i) ==
            IF i > Len(lines) THEN << >>
            ELSE ImportsOfLine(i,
                               FirstMatch({ ImportMatchAt(lines[i], k) : k \in 0..(Len(lines[i]) - 1) }),
                               FirstMatch({ SideEffectMatchAt(lines[i], k) : k \in 0..(Len(lines[i]) - 1) }))
                 \o ImportsOfLines(lines, i + 1)
    IN  ImportsOfLines(split(script, "\n"), 1)

resolveModule(moduleName) ==
    IF isCoreModule(moduleName)
    THEN [ module |-> moduleName, kind |-> "core",
           metadata |-> getCoreModule(moduleName), isKnown |-> TRUE ]
    ELSE IF isPluginModule(moduleName)
    THEN [ module |-> moduleName, kind |-> "plugin",
           metadata |-> getPluginModule(moduleName), isKnown |-> isKnownPluginModule(moduleName) ]
    ELSE [ module |-> moduleName, kind |-> "external", metadata |-> None, isKnown |-> FALSE ]

\* hasRouterImport finding no import of the router in any list
hasRouterImportNever(imports) == FALSE

hasRouterImport(imports) == \E i \in 1..Len(imports) : imports[i].module = <<"z","e","n","i","t","h","/","r","o","u","t","e","r">>

\* getAllModules: the core modules, then the plugin modules
getAllModules ==
    [ i \in 1..Len(CORE_MODULES) |-> [ module |-> CORE_MODULES[i].module, kind |-> "core" ] ]
    \o [ i \in 1..Len(PLUGIN_MODULES) |-> [ module |-> PLUGIN_MODULES[i].module, kind |-> "plugin" ] ]

-----------------------------------------------------------------------------
(* Paths (node's path module, as project.ts and the server use it) *)

dirname(p) == IF Len(p) = 0 THEN p ELSE SubSeq(p, 1, Len(p) - 1)

join(p, name) == Append(p, name)

basename(p) == IF Len(p) = 0 THEN << >> ELSE p[Len(p)]

IsPrefix(p, q) == Len(p) <= Len(q) /\ SubSeq(q, 1, Len(p)) = p

ZEN_EXT == <<".","z","e","n">>

\* path.basename(name, '.zen')
stripExt(name, ext) ==
    IF endsWith(name, ext) /\ Len(name) > Len(ext)
    THEN SubSeq(name, 1, Len(name) - Len(ext))
    ELSE name

-----------------------------------------------------------------------------
(* The disk *)

W == << <<"w">> >>
WConfig == << <<"w">>, <<"z","e","n","i","t","h",".","c","o","n","f","i","g",".","t","s">> >>
WSrc == << <<"w">>, <<"s","r","c">> >>
WPages == << <<"w">>, <<"s","r","c">>, <<"p","a","g","e","s">> >>
WComponents == << <<"w">>, <<"s","r","c">>, <<"c","o","m","p","o","n","e","n","t","s">> >>
WFoo == << <<"w">>, <<"s","r","c">>, <<"c","o","m","p","o","n","e","n","t","s">>, <<"F","o","o",".","z","e","n">> >>
WLayouts == << <<"w">>, <<"s","r","c">>, <<"l","a","y","o","u","t","s">> >>
WMain == << <<"w">>, <<"s","r","c">>, <<"l","a","y","o","u","t","s">>, <<"M","a","i","n",".","z","e","n">> >>
WUi == << <<"w">>, <<"s","r","c">>, <<"c","o","m","p","o","n","e","n","t","s">>, <<"u","i">> >>
WBar == << <<"w">>, <<"s","r","c">>, <<"c","o","m","p","o","n","e","n","t","s">>, <<"u","i">>, <<"B","a","r",".","z","e","n">> >>
WIndex == << <<"w">>, <<"s","r","c">>, <<"p","a","g","e","s">>, <<"i","n","d","e","x",".","z","e","n">> >>
WApp == << <<"w">>, <<"a","p","p">> >>
WAppPages == << <<"w">>, <<"a","p","p">>, <<"p","a","g","e","s">> >>
WAppHome == << <<"w">>, <<"a","p","p">>, <<"p","a","g","e","s">>, <<"h","o","m","e",".","z","e","n">> >>
WAppLayouts == << <<"w">>, <<"a","p","p">>, <<"l","a","y","o","u","t","s">> >>
WAppBase == << <<"w">>, <<"a","p","p">>, <<"l","a","y","o","u","t","s">>, <<"B","a","s","e",".","z","e","n">> >>
N == << <<"w">>, <<"p">> >>
NConfig == << <<"w">>, <<"p">>, <<"z","e","n","i","t","h",".","c","o","n","f","i","g",".","t","s">> >>

\* Directories among the paths of the model (fs.Dirent.isDirectory)
Directories ==
    { W, WSrc, WPages, WComponents, WLayouts, WUi, N, WApp, WAppPages, WAppLayouts }

\* What is always on disk, and what comes and goes
StaticPaths == { W, WSrc, WComponents, N }
MutablePaths == { WConfig, WPages, WFoo, NConfig }

existsSync(f, p) == p \in f

isDirectory(p) == p \in Directories

\* fs.readdirSync(dir): the entries of dir, in name order
Children(f, dir) == { p \in f : Len(p) = Len(dir) + 1 /\ dirname(p) = dir }

\* The properties extractPropsFromFile infers from a file's content
FileProps(p) ==
    IF p = WFoo THEN << <<"t","i","t","l","e">> >>
    ELSE IF p = WBar THEN << <<"h","r","e","f">> >>
    ELSE << >>

\* A file fs.readFileSync fails on is on disk with this entry next to its path
ReadError(p) == join(p, <<"E","A","C","C","E","S">>)

-----------------------------------------------------------------------------
(* project.ts *)

RECURSIVE DetectIn(_, _)
DetectIn(f, current) ==
    IF current = dirname(current) THEN None
    ELSE IF existsSync(f, join(current, <<"z","e","n","i","t","h",".","c","o","n","f","i","g",".","t","s">>)) THEN Some(current)
    ELSE IF /\ existsSync(f, join(current, <<"s","r","c">>))
            /\ \/ existsSync(f, join(join(current, <<"s","r","c">>), <<"p","a","g","e","s">>))
               \/ existsSync(f, join(join(current, <<"s","r","c">>), <<"l","a","y","o","u","t","s">>))
         THEN Some(current)
    ELSE IF /\ existsSync(f, join(current, <<"a","p","p">>))
            /\ \/ existsSync(f, join(join(current, <<"a","p","p">>), <<"p","a","g","e","s">>))
               \/ existsSync(f, join(join(current, <<"a","p","p">>), <<"l","a","y","o","u","t","s">>))
         THEN Some(current)
    ELSE DetectIn(f, dirname(current))

detectProjectRoot(startPath) == DetectIn(fs, startPath)

\* The properties of the file whether or not it can be read
extractPropsFromFileAsRead(f, filePath) == FileProps(filePath)

\* try { readFileSync ... return props } catch { return [] }
extractPropsFromFile(f, filePath) ==
    IF existsSync(f, ReadError(filePath)) THEN << >> ELSE FileProps(filePath)

\* result.set(name, info) for every file found: the map, by name.  Two files of
\* one name in different subdirectories leave the one scanned last.
discoverZenFiles(f, dir, type) ==
    IF ~existsSync(f, dir) THEN << >>
    ELSE LET \* scanDir: the .zen files below dir, however deep
             files == { p \in f : /\ IsPrefix(dir, p) /\ Len(p) > Len(dir)
                                  /\ ~isDirectory(p)
                                  /\ endsWith(basename(p), ZEN_EXT) }
             names == { stripExt(basename(p), ZEN_EXT) : p \in files }
         IN  [ n \in names |->
                 LET p == CHOOSE q \in files : stripExt(basename(q), ZEN_EXT) = n
                 IN  [ name |-> n, filePath |-> p, type |-> type,
                       props |-> extractPropsFromFile(f, p) ] ]

BuildIn(f, root) ==
    LET srcDir == IF existsSync(f, join(root, <<"s","r","c">>))
                  THEN join(root, <<"s","r","c">>) ELSE join(root, <<"a","p","p">>)
    IN  [ root |-> root,
          layouts |-> discoverZenFiles(f, join(srcDir, <<"l","a","y","o","u","t","s">>), "layout"),
          components |-> discoverZenFiles(f, join(srcDir, <<"c","o","m","p","o","n","e","n","t","s">>), "component"),
          pages |-> discoverZenFiles(f, join(srcDir, <<"p","a","g","e","s">>), "page") ]

\* buildProjectGraph naming the directory above the root in the graph
buildProjectGraphOfParent(root) == BuildIn(fs, dirname(root))

buildProjectGraph(root) == BuildIn(fs, root)

has(map, key) == key \in DOMAIN map

resolveComponent(graph, name) ==
    IF has(graph.layouts, name) THEN Some(graph.layouts[name])
    ELSE IF has(graph.components, name) THEN Some(graph.components[name])
    ELSE None

-----------------------------------------------------------------------------
(* new RegExp(source): the patterns the diagnostics build from document text *)

RegExp(source) ==
    LET Atom(kind, c) == [ kind |-> kind, c |-> c, star |-> FALSE ]
        \* The atoms of a source, left to right; valid is FALSE when the RegExp
        \* constructor throws SyntaxError (a '*' with nothing to repeat)
        RECURSIVE Compile(_, _)
        Compile(i, atoms) ==
            IF i >= Len(source) THEN [ valid |-> TRUE, atoms |-> atoms ]
            ELSE LET c == At(source, i)
                     last == atoms[Len(atoms)]
                 IN  IF c = "\\"
                     THEN IF i + 1 >= Len(source) THEN [ valid |-> FALSE, atoms |-> atoms ]
                          ELSE IF At(source, i + 1) = "b"
                          THEN Compile(i + 2, Append(atoms, Atom("wordb", "")))
                          ELSE Compile(i + 2, Append(atoms, Atom("char", At(source, i + 1))))
                     ELSE IF c = "*"
                     THEN IF atoms = << >> \/ last.kind \notin { "char", "any" } \/ last.star
                          THEN [ valid |-> FALSE, atoms |-> atoms ]
                          ELSE Compile(i + 1,
                                       [ atoms EXCEPT ![Len(atoms)] = [ last EXCEPT !.star = TRUE ] ])
                     ELSE IF c = "." THEN Compile(i + 1, Append(atoms, Atom("any", "")))
                     ELSE IF c = "$" THEN Compile(i + 1, Append(atoms, Atom("end", "")))
                     ELSE IF c = "^" THEN Compile(i + 1, Append(atoms, Atom("start", "")))
                     ELSE Compile(i + 1, Append(atoms, Atom("char", c)))
    IN  Compile(0, << >>)

\* \b at offset i
IsWordBoundary(s, i) ==
    (i > 0 /\ At(s, i - 1) \in WordChars) # (i < Len(s) /\ At(s, i) \in WordChars)

\* Where a match of atoms[k..] that starts at offset i ends, -1 if there is
\* none: a starred atom takes the longest run first and gives back one
\* character at a time
MatchAtoms(s, i, atoms, k) ==
    LET AtomFits(j, atom) ==
            /\ j < Len(s)
            /\ \/ atom.kind = "char" /\ At(s, j) = atom.c
               \/ atom.kind = "any" /\ At(s, j) \notin LineTerminators
        RECURSIVE GreedyRun(_, _)
        GreedyRun(j, atom) == IF AtomFits(j, atom) THEN 1 + GreedyRun(j + 1, atom) ELSE 0
        RECURSIVE Match(_, _)
        RECURSIVE StarTry(_, _, _)
        Match(j, n) ==
            IF n > Len(atoms) THEN j
            ELSE LET a == atoms[n]
                 IN  IF a.kind = "wordb"
                     THEN IF IsWordBoundary(s, j) THEN Match(j, n + 1) ELSE -1
                     ELSE IF a.kind = "end"
                     THEN IF j = Len(s) THEN Match(j, n + 1) ELSE -1
                     ELSE IF a.kind = "start"
                     THEN IF j = 0 THEN Match(j, n + 1) ELSE -1
                     ELSE IF a.star THEN StarTry(j, n, GreedyRun(j, a))
                     ELSE IF AtomFits(j, a) THEN Match(j + 1, n + 1)
                     ELSE -1
        StarTry(j, n, run) ==
            IF run < 0 THEN -1
            ELSE IF Match(j + run, n + 1) >= 0 THEN Match(j + run, n + 1)
            ELSE StarTry(j, n, run - 1)
    IN  Match(i, k)

\* s.match(pattern): the leftmost match from offset i on, or None
SearchAtoms(s, i, atoms) ==
    LET Found(k, end) == IF end < 0 THEN None ELSE Some([ index |-> k, end |-> end ])
    IN  FirstMatch({ Found(k, MatchAtoms(s, k, atoms, 1)) : k \in i..Len(s) })

-----------------------------------------------------------------------------
(* diagnostics.ts *)

\* A finding: the range is from the start to the end offset of the document,
\* as the positions document.positionAt gives
Finding(text, severity, from, to, message) ==
    [ severity |-> severity,
      range |-> [ start |-> positionAt(text, from), end |-> positionAt(text, to) ],
      message |-> message, source |-> "zenith" ]

\* What a collector leaves: the findings, or threw when an exception ended it
Collected(diagnostics) == [ threw |-> FALSE, diagnostics |-> diagnostics ]
Threw == [ threw |-> TRUE, diagnostics |-> << >> ]

\* Two steps of a collector one after the other: an exception in either ends it
Then(first, rest) ==
    IF first.threw \/ rest.threw THEN Threw
    ELSE Collected(first.diagnostics \o rest.diagnostics)

\* The range of an unknown component, with the tag's '<' at index, as taken
\* from the '<' itself
ComponentRangeFromBracket(index, componentName) ==
    [ from |-> index, to |-> index + Len(componentName) ]

\* positionAt(match.index + 1) to positionAt(match.index + 1 + componentName.length)
ComponentRange(index, componentName) ==
    [ from |-> index + 1, to |-> index + 1 + Len(componentName) ]

collectComponentDiagnostics(text, graph) ==
    LET \* /<([A-Z][a-zA-Z0-9]*)(?=[\s\/>])/ at offset i
        ComponentTagAt(i, e) ==
            IF /\ i + 1 < Len(text) /\ At(text, i) = "<" /\ At(text, i + 1) \in Upper
               /\ e < Len(text) /\ At(text, e) \in Space \cup { "/", ">" }
            THEN Some([ index |-> i, end |-> e ]) ELSE None
        Push(componentName, range) ==
            << Finding(text, "Warning", range.from, range.to,
                       << "Unknown component", componentName >>) >>
        Check(index, componentName) ==
            IF /\ componentName # <<"Z","e","n","L","i","n","k">>
               /\ ~has(The(graph).layouts, componentName)
               /\ ~has(The(graph).components, componentName)
            THEN Push(componentName, ComponentRange(index, componentName))
            ELSE << >>
        RECURSIVE ComponentFindings(_)
        NextComponent(match) ==
            IF ~IsSome(match) THEN << >>
            ELSE Check(The(match).index, substring(text, The(match).index + 1, The(match).end))
                 \o ComponentFindings(The(match).end)
        ComponentFindings(i) ==
            NextComponent(FirstMatch({ ComponentTagAt(k, SkipIn(text, k + 2, Letters \cup Digits)) :
                                       k \in i..(Len(text) - 1) }))
    IN  IF ~IsSome(graph) THEN << >> ELSE ComponentFindings(0)

collectDirectiveDiagnostics(text) ==
    LET \* /(zen:(?:if|for|effect|show))\s*=\s*["']([^"']*)["']/ at offset i
        DirectiveAt(i) ==
            LET Value(name) ==
                    LET a == SkipIn(text, i + Len(name), Space)
                        b == SkipIn(text, a + 1, Space)
                        c == SkipNotIn(text, b + 1, Quotes)
                    IN  IF \/ a >= Len(text) \/ At(text, a) # "="
                           \/ b >= Len(text) \/ At(text, b) \notin Quotes
                           \/ c >= Len(text)
                        THEN None
                        ELSE Some([ index |-> i, name |-> name,
                                    value |-> substring(text, b + 1, c), end |-> c + 1 ])
                Named(names) == IF names = {} THEN None ELSE Value(CHOOSE n \in names : TRUE)
            IN  Named({ n \in SeqToSet(DirectiveNames) : LitAt(text, i, n) })
        Check(match) ==
            (IF match.name = <<"z","e","n",":","f","o","r">> /\ ~IsSome(parseForExpression(match.value))
             THEN << Finding(text, "Error", match.index, match.end, << "Invalid zen:for syntax" >>) >>
             ELSE << >>)
            \o (IF trim(match.value) = << >>
                THEN << Finding(text, "Error", match.index, match.end,
                                << "requires a value", match.name >>) >>
                ELSE << >>)
        RECURSIVE DirectiveFindings(_)
        NextDirective(match) ==
            IF ~IsSome(match) THEN << >>
            ELSE Check(The(match)) \o DirectiveFindings(The(match).end)
        DirectiveFindings(i) ==
            NextDirective(FirstMatch({ DirectiveAt(k) : k \in i..(Len(text) - 1) }))
        \* /<slot[^>]*zen:for/ at offset i: the match ends after the last zen:for
        \* before the next '>'
        SlotForAt(i, last) ==
            IF ~LitAt(text, i, <<"<","s","l","o","t">>) \/ last < 0 THEN None
            ELSE Some([ index |-> i, end |-> last + 7 ])
        RECURSIVE SlotForFindings(_)
        NextSlotFor(match) ==
            IF ~IsSome(match) THEN << >>
            ELSE << Finding(text, "Error", The(match).index, The(match).end,
                            << "zen:for cannot be used on <slot>" >>) >>
                 \o SlotForFindings(The(match).end)
        SlotForFindings(i) ==
            NextSlotFor(FirstMatch({ SlotForAt(k, Greatest({ p \in (k + 5)..(SkipNotIn(text, k + 5, { ">" }) - 7) :
                                                              LitAt(text, p, <<"z","e","n",":","f","o","r">>) }, -1)) :
                                     k \in i..(Len(text) - 1) }))
    IN  DirectiveFindings(0) \o SlotForFindings(0)

\* import[^'"]*['"]<module>['"] in the script from offset i on, the module part
\* being the atoms of imp.module.replace(':', '\\:'): the leftmost match
ImportPatternFrom(s, i, atoms) ==
    LET Closed(j, e) ==
            IF e >= 0 /\ e < Len(s) /\ At(s, e) \in Quotes
            THEN Some([ index |-> j, end |-> e + 1 ]) ELSE None
        Quoted(j, q) ==
            IF LitAt(s, j, <<"i","m","p","o","r","t">>) /\ q < Len(s)
            THEN Closed(j, MatchAtoms(s, q + 1, atoms, 1)) ELSE None
    IN  FirstMatch({ Quoted(j, SkipNotIn(s, j + 6, Quotes)) : j \in i..(Len(s) - 1) })

\* str.replace(':', '\\:'): the first ':' only
EscapeFirstColon(str) ==
    LET Escaped(at) ==
            IF at < 0 THEN str
            ELSE substring(str, 0, at) \o <<"\\",":">> \o substringFrom(str, at + 1)
    IN  Escaped(indexOf(str, <<":">>))

\* The severity of the finding for an unknown plugin module, as an error
PluginSeverityError == "Error"

\* DiagnosticSeverity.Information
PluginSeverity == "Information"

\* The soft finding for an import of a plugin module that is not known
PluginFinding(text, scriptContent, scriptStart, imp) ==
    LET Push(importMatch) ==
            IF ~IsSome(importMatch) THEN Collected(<< >>)
            ELSE Collected(<< Finding(text, PluginSeverity,
                                      scriptStart + The(importMatch).index,
                                      scriptStart + The(importMatch).index
                                        + (The(importMatch).end - The(importMatch).index),
                                      << "Unknown plugin module", imp.module >>) >>)
        Match(importPattern) ==
            IF ~importPattern.valid THEN Threw
            ELSE Push(ImportPatternFrom(scriptContent, 0, importPattern.atoms))
    IN  Match(RegExp(EscapeFirstColon(imp.module)))

collectImportDiagnostics(text) ==
    LET \* The finding for a specifier that the module of its import does not export
        Push(scriptStart, imp, specifier, specMatch) ==
            IF ~IsSome(specMatch) THEN Collected(<< >>)
            ELSE Collected(<< Finding(text, "Warning", scriptStart + The(specMatch).index,
                                      scriptStart + The(specMatch).index + Len(specifier),
                                      << "is not exported from", specifier, imp.module >>) >>)
        Match(scriptContent, scriptStart, imp, specifier, specPattern) ==
            IF ~specPattern.valid THEN Threw
            ELSE Push(scriptStart, imp, specifier,
                      SearchAtoms(scriptContent, 0, specPattern.atoms))
        \* for (const specifier of imp.specifiers), from the k-th on
        RECURSIVE SpecifierFindings(_, _, _, _, _)
        SpecifierFindings(scriptContent, scriptStart, imp, validExports, k) ==
            IF k > Len(imp.specifiers) THEN Collected(<< >>)
            ELSE Then(IF imp.specifiers[k] \in validExports THEN Collected(<< >>)
                      ELSE Match(scriptContent, scriptStart, imp, imp.specifiers[k],
                                 RegExp(<<"\\","b">> \o imp.specifiers[k] \o <<"\\","b">>)),
                      SpecifierFindings(scriptContent, scriptStart, imp, validExports, k + 1))
        \* The body of the loop over the imports
        OfImport(scriptContent, scriptStart, imp, resolved) ==
            Then(IF isPluginModule(imp.module) /\ ~resolved.isKnown
                 THEN PluginFinding(text, scriptContent, scriptStart, imp)
                 ELSE Collected(<< >>),
                 IF ~(resolved.isKnown /\ IsSome(resolved.metadata)) THEN Collected(<< >>)
                 ELSE IF "exports" \notin DOMAIN The(resolved.metadata) THEN Threw
                 ELSE SpecifierFindings(scriptContent, scriptStart, imp,
                                        { The(resolved.metadata).exports[j].name :
                                            j \in 1..Len(The(resolved.metadata).exports) }, 1))
        \* for (const imp of imports), from the k-th on
        RECURSIVE ImportFindings(_, _, _, _)
        ImportFindings(scriptContent, scriptStart, imports, k) ==
            IF k > Len(imports) THEN Collected(<< >>)
            ELSE Then(OfImport(scriptContent, scriptStart, imports[k],
                               resolveModule(imports[k].module)),
                      ImportFindings(scriptContent, scriptStart, imports, k + 1))
        Script(found, scriptContent) ==
            ImportFindings(scriptContent,
                           found.index + indexOf(substring(text, found.index, found.end),
                                                 scriptContent),
                           parseZenithImports(scriptContent), 1)
        Matched(scriptMatch) ==
            IF ~IsSome(scriptMatch) THEN Collected(<< >>)
            ELSE Script(The(scriptMatch),
                        substring(text, The(scriptMatch).contentStart, The(scriptMatch).contentEnd))
    IN  Matched(ScriptMatchFrom(text, 0))

collectExpressionDiagnostics(text) ==
    LET \* /\bwith\s*\(/.test(expression)
        HasWithStatement(expression) ==
            \E p \in 0..(Len(expression) - 1) :
                /\ IsWordBoundary(expression, p)
                /\ LitAt(expression, p, <<"w","i","t","h">>)
                /\ SkipIn(expression, p + 4, Space) < Len(expression)
                /\ At(expression, SkipIn(expression, p + 4, Space)) = "("
        \* /\{([^}]+)\}/ at offset i, the next '}' being at offset c
        ExpressionAt(i, c) ==
            IF At(text, i) = "{" /\ c > i + 1 /\ c < Len(text)
            THEN Some([ index |-> i, end |-> c + 1 ]) ELSE None
        Check(offset, end, expression) ==
            (IF includes(expression, <<"e","v","a","l","(">>) \/ includes(expression, <<"F","u","n","c","t","i","o","n","(">>)
             THEN << Finding(text, "Error", offset, end, << "Dangerous pattern detected" >>) >>
             ELSE << >>)
            \o (IF HasWithStatement(expression)
                THEN << Finding(text, "Error", offset, end, << "'with' statement is not allowed" >>) >>
                ELSE << >>)
        RECURSIVE ExpressionFindings(_)
        NextExpression(match) ==
            IF ~IsSome(match) THEN << >>
            ELSE Check(The(match).index, The(match).end,
                       substring(text, The(match).index + 1, The(match).end - 1))
                 \o ExpressionFindings(The(match).end)
        ExpressionFindings(i) ==
            NextExpression(FirstMatch({ ExpressionAt(k, SkipNotIn(text, k + 1, { "}" })) :
                                        k \in i..(Len(text) - 1) }))
    IN  ExpressionFindings(0)

\* The four checks in their order; an exception in the import check leaves
\* collectDiagnostics without a result
collectDiagnostics(text, graph) ==
    LET All(components, directives, imports, expressions) ==
            IF imports.threw THEN Threw
            ELSE Collected(components \o directives \o imports.diagnostics \o expressions)
    IN  All(collectComponentDiagnostics(text, graph), collectDirectiveDiagnostics(text),
            collectImportDiagnostics(text), collectExpressionDiagnostics(text))
-----------------------------------------------------------------------------
(* The server: completion *)

\* LIFECYCLE_HOOKS
LIFECYCLE_HOOKS ==
    << [ name |-> <<"s","t","a","t","e">>, snippet |-> <<"s","t","a","t","e"," ","$","{","1",":","n","a","m","e","}"," ","="," ","$","{","2",":","v","a","l","u","e","}">>, kind |-> "Keyword" ],
       [ name |-> <<"z","e","n","O","n","M","o","u","n","t">>, snippet |-> <<"z","e","n","O","n","M","o","u","n","t","(","(",")"," ","=",">"," ","{","\n","\t","$","0","\n","}",")">>, kind |-> "Function" ],
       [ name |-> <<"z","e","n","O","n","D","e","s","t","r","o","y">>, snippet |-> <<"z","e","n","O","n","D","e","s","t","r","o","y","(","(",")"," ","=",">"," ","{","\n","\t","$","0","\n","}",")">>, kind |-> "Function" ],
       [ name |-> <<"z","e","n","O","n","U","p","d","a","t","e">>, snippet |-> <<"z","e","n","O","n","U","p","d","a","t","e","(","(",")"," ","=",">"," ","{","\n","\t","$","0","\n","}",")">>, kind |-> "Function" ],
       [ name |-> <<"z","e","n","E","f","f","e","c","t">>, snippet |-> <<"z","e","n","E","f","f","e","c","t","(","(",")"," ","=",">"," ","{","\n","\t","$","0","\n","}",")">>, kind |-> "Function" ],
       [ name |-> <<"u","s","e","F","e","t","c","h">>, snippet |-> <<"u","s","e","F","e","t","c","h","(","\"","$","{","1",":","u","r","l","}","\"",")">>, kind |-> "Function" ] >>

\* HTML_ELEMENTS
HTML_ELEMENTS ==
    LET El(tag, attrs, selfClosing) == [ tag |-> tag, attrs |-> attrs, selfClosing |-> selfClosing ]
    IN  <<
           El(<<"d","i","v">>, None, FALSE),
           El(<<"s","p","a","n">>, None, FALSE),
           El(<<"p">>, None, FALSE),
           El(<<"a">>, Some(<<"h","r","e","f","=","\"","$","1","\"">>), FALSE),
           El(<<"b","u","t","t","o","n">>, Some(<<"o","n","c","l","i","c","k","=","{","$","1","}">>), FALSE),
           El(<<"i","n","p","u","t">>, Some(<<"t","y","p","e","=","\"","$","1","\"">>), TRUE),
           El(<<"i","m","g">>, Some(<<"s","r","c","=","\"","$","1","\""," ","a","l","t","=","\"","$","2","\"">>), TRUE),
           El(<<"h","1">>, None, FALSE),
           El(<<"h","2">>, None, FALSE),
           El(<<"h","3">>, None, FALSE),
           El(<<"h","4">>, None, FALSE),
           El(<<"h","5">>, None, FALSE),
           El(<<"h","6">>, None, FALSE),
           El(<<"u","l">>, None, FALSE),
           El(<<"o","l">>, None, FALSE),
           El(<<"l","i">>, None, FALSE),
           El(<<"n","a","v">>, None, FALSE),
           El(<<"h","e","a","d","e","r">>, None, FALSE),
           El(<<"f","o","o","t","e","r">>, None, FALSE),
           El(<<"m","a","i","n">>, None, FALSE),
           El(<<"s","e","c","t","i","o","n">>, None, FALSE),
           El(<<"a","r","t","i","c","l","e">>, None, FALSE),
           El(<<"a","s","i","d","e">>, None, FALSE),
           El(<<"f","o","r","m">>, None, FALSE),
           El(<<"l","a","b","e","l">>, Some(<<"f","o","r","=","\"","$","1","\"">>), FALSE),
           El(<<"s","e","l","e","c","t">>, None, FALSE),
           El(<<"o","p","t","i","o","n">>, Some(<<"v","a","l","u","e","=","\"","$","1","\"">>), FALSE),
           El(<<"t","e","x","t","a","r","e","a">>, None, FALSE),
           El(<<"t","a","b","l","e">>, None, FALSE),
           El(<<"t","h","e","a","d">>, None, FALSE),
           El(<<"t","b","o","d","y">>, None, FALSE),
           El(<<"t","r">>, None, FALSE),
           El(<<"t","h">>, None, FALSE),
           El(<<"t","d">>, None, FALSE),
           El(<<"b","r">>, None, TRUE),
           El(<<"h","r">>, None, TRUE),
           El(<<"s","t","r","o","n","g">>, None, FALSE),
           El(<<"e","m">>, None, FALSE),
           El(<<"c","o","d","e">>, None, FALSE),
           El(<<"p","r","e">>, None, FALSE),
           El(<<"b","l","o","c","k","q","u","o","t","e">>, None, FALSE),
           El(<<"s","l","o","t">>, None, FALSE) >>

\* HTML_ATTRIBUTES
HTML_ATTRIBUTES ==
    << <<"i","d">>, <<"c","l","a","s","s">>, <<"s","t","y","l","e">>, <<"t","i","t","l","e">>, <<"h","r","e","f">>, <<"s","r","c">>, <<"a","l","t">>, <<"t","y","p","e">>,
       <<"n","a","m","e">>, <<"v","a","l","u","e">>, <<"p","l","a","c","e","h","o","l","d","e","r">>, <<"d","i","s","a","b","l","e","d">>, <<"c","h","e","c","k","e","d">>, <<"r","e","a","d","o","n","l","y">>,
       <<"r","e","q","u","i","r","e","d">>, <<"h","i","d","d","e","n">> >>

\* DOM_EVENTS
DOM_EVENTS ==
    << <<"c","l","i","c","k">>, <<"c","h","a","n","g","e">>, <<"i","n","p","u","t">>, <<"s","u","b","m","i","t">>, <<"k","e","y","d","o","w","n">>, <<"k","e","y","u","p">>, <<"k","e","y","p","r","e","s","s">>,
       <<"f","o","c","u","s">>, <<"b","l","u","r">>, <<"m","o","u","s","e","o","v","e","r">>, <<"m","o","u","s","e","o","u","t">>, <<"m","o","u","s","e","e","n","t","e","r">>, <<"m","o","u","s","e","l","e","a","v","e">> >>

\* A CompletionItem, without its documentation; insertText, sortText and
\* preselect are None where the item has none
Item(label, kind, detail, insertText, sortText) ==
    [ label |-> label, kind |-> kind, detail |-> detail,
      insertText |-> insertText, sortText |-> sortText, preselect |-> None ]

\* !ctx.currentWord || name.toLowerCase().startsWith(ctx.currentWord.toLowerCase())
WordFits(name, currentWord) ==
    currentWord = << >> \/ startsWith(toLowerCase(name), toLowerCase(currentWord))

\* The items, in order, that f makes of those elements of list that pass keep
ItemsOf(list, keep(_), f(_)) ==
    LET kept == SelectSeq(list, keep)
    IN  [ i \in 1..Len(kept) |-> f(kept[i]) ]

\* /^[A-Z]/.test(s) and /^[a-z]/.test(s)
StartsUpper(s) == s # << >> /\ s[1] \in Upper
StartsLower(s) == s # << >> /\ s[1] \in Lower

\* === SCRIPT CONTEXT ===
ScriptItems(ctx, states, functions, routerEnabled, lineBefore) ==
    LET \* /from\s+['"][^'"]*$/.test(line) || /import\s+['"][^'"]*$/.test(line)
        IsImportPath(line) ==
            \E word \in { <<"f","r","o","m">>, <<"i","m","p","o","r","t">> } :
                \E p \in 0..(Len(line) - 1) :
                    LET a == SkipIn(line, p + Len(word), Space)
                    IN  /\ LitAt(line, p, word)
                        /\ a > p + Len(word)
                        /\ a < Len(line) /\ At(line, a) \in Quotes
                        /\ \A k \in (a + 1)..(Len(line) - 1) : At(line, k) \notin Quotes
    IN  ItemsOf(LIFECYCLE_HOOKS,
                LAMBDA hook : WordFits(hook.name, ctx.currentWord),
                LAMBDA hook :
                    [ Item(hook.name, hook.kind,
                           IF hook.name = <<"s","t","a","t","e">> THEN <<"Z","e","n","i","t","h"," ","S","t","a","t","e">> ELSE <<"Z","e","n","i","t","h"," ","L","i","f","e","c","y","c","l","e">>,
                           Some(hook.snippet), Some(<<"0","_">> \o hook.name))
                      EXCEPT !.preselect = Some(hook.name = <<"s","t","a","t","e">> /\ startsWith(ctx.currentWord, <<"s">>)) ])
        \o (IF ~routerEnabled THEN << >>
            ELSE ItemsOf(ROUTER_HOOKS,
                         LAMBDA hook : WordFits(hook.name, ctx.currentWord),
                         LAMBDA hook : Item(hook.name, "Function", hook.owner,
                                            Some(hook.name \o <<"(",")">>), Some(<<"0","_">> \o hook.name))))
        \o ItemsOf(functions,
                   LAMBDA func : WordFits(func.name, ctx.currentWord),
                   LAMBDA func : Item(func.name, "Function",
                                      (IF func.isAsync THEN <<"a","s","y","n","c"," ">> ELSE << >>)
                                      \o <<"f","u","n","c","t","i","o","n"," ">> \o func.name \o <<"(">> \o func.params \o <<")">>,
                                      Some(func.name \o <<"(","$","0",")">>), None))
        \o ItemsOf(states,
                   LAMBDA st : WordFits(st.key, ctx.currentWord),
                   LAMBDA st : Item(st.key, "Variable", <<"s","t","a","t","e"," ">> \o st.key, None, None))
        \o (IF ~IsImportPath(lineBefore) THEN << >>
            ELSE ItemsOf(getAllModules,
                         LAMBDA mod : TRUE,
                         LAMBDA mod : Item(mod.module, "Module",
                                           IF mod.kind = "plugin" THEN <<"Z","e","n","i","t","h"," ","P","l","u","g","i","n">> ELSE <<"Z","e","n","i","t","h"," ","C","o","r","e">>,
                                           Some(mod.module), None)))

\* The sort key of a state in an expression, in the tier of the functions
StateSortTextSecond(name) == <<"1","_">> \o name

\* sortText: `0_${name}`
StateSortText(name) == <<"0","_">> \o name

\* === EXPRESSION CONTEXT {  } ===
ExpressionItems(states, functions, loopVariables, routerEnabled) ==
    ItemsOf(states, LAMBDA st : TRUE,
            LAMBDA st : Item(st.key, "Variable", <<"s","t","a","t","e"," ">> \o st.key, None,
                             Some(StateSortText(st.key))))
    \o ItemsOf(functions, LAMBDA func : TRUE,
               LAMBDA func : Item(func.name, "Function",
                                  (IF func.isAsync THEN <<"a","s","y","n","c"," ">> ELSE << >>) \o <<"f","u","n","c","t","i","o","n">>,
                                  Some(func.name \o <<"(",")">>), Some(<<"1","_">> \o func.name)))
    \o ItemsOf(loopVariables, LAMBDA loopVar : TRUE,
               LAMBDA loopVar : Item(loopVar, "Variable", <<"l","o","o","p"," ","v","a","r","i","a","b","l","e">>, None,
                                     Some(<<"0","_">> \o loopVar)))
    \o (IF ~routerEnabled THEN << >>
        ELSE ItemsOf(ROUTE_FIELDS, LAMBDA field : TRUE,
                     LAMBDA field : Item(<<"r","o","u","t","e",".">> \o field.name, "Property", field.type, None,
                                         Some(<<"2","_","r","o","u","t","e","_">> \o field.name))))

\* === TEMPLATE CONTEXT (not in script/style) ===
TemplateItems(ctx, graph, routerEnabled, lineBefore) ==
    LET \* The entries of a Map of the graph, in the order scanDir set them
        RECURSIVE Entries(_)
        Entries(map) ==
            IF DOMAIN map = {} THEN << >>
            ELSE LET k == CHOOSE x \in DOMAIN map : TRUE
                 IN  << map[k] >> \o Entries([ x \in DOMAIN map \ { k } |-> map[x] ])
        \* line.match(/<\s*$/)
        IsAfterOpenBracket(line) ==
            \E p \in 0..(Len(line) - 1) :
                /\ At(line, p) = "<"
                /\ \A k \in (p + 1)..(Len(line) - 1) : At(line, k) \in Space
        \* The snippet of an HTML element
        ElementSnippet(el) ==
            IF el.selfClosing
            THEN IF IsSome(el.attrs) THEN el.tag \o <<" ">> \o The(el.attrs) \o <<" ","/",">">>
                 ELSE el.tag \o <<" ","/",">">>
            ELSE IF IsSome(el.attrs)
            THEN el.tag \o <<" ">> \o The(el.attrs) \o <<">","$","0","<","/">> \o el.tag \o <<">">>
            ELSE el.tag \o <<">","$","0","<","/">> \o el.tag \o <<">">>
    IN  LET isAfterOpenBracket == IsAfterOpenBracket(lineBefore)
            isTypingTag == Len(ctx.currentWord) > 0 /\ ~ctx.inTag
            open == IF IsAfterOpenBracket(lineBefore) THEN << >> ELSE <<"<">>
            propStr(info) == IF Len(info.props) > 0 THEN <<" ">> \o info.props[1] \o <<"=","\"","$","1","\"">>
                             ELSE << >>
        IN  (IF IsSome(graph) /\ (isAfterOpenBracket \/ (isTypingTag /\ StartsUpper(ctx.currentWord)))
             THEN ItemsOf(Entries(The(graph).layouts),
                          LAMBDA info : WordFits(info.name, ctx.currentWord),
                          LAMBDA info : Item(info.name, "Class", <<"l","a","y","o","u","t">>,
                                             Some(open \o info.name \o propStr(info) \o <<">","$","0","<","/">>
                                                  \o info.name \o <<">">>),
                                             Some(<<"0","_">> \o info.name)))
                  \o ItemsOf(Entries(The(graph).components),
                             LAMBDA info : WordFits(info.name, ctx.currentWord),
                             LAMBDA info : Item(info.name, "Class", <<"c","o","m","p","o","n","e","n","t">>,
                                                Some(open \o info.name \o <<" ","$","0","/",">">>),
                                                Some(<<"0","_">> \o info.name)))
             ELSE << >>)
            \o (IF routerEnabled /\ (isAfterOpenBracket
                                     \/ (isTypingTag /\ startsWith(toLowerCase(ctx.currentWord), <<"z">>)))
                THEN << Item(<<"Z","e","n","L","i","n","k">>, "Class", <<"r","o","u","t","e","r"," ","c","o","m","p","o","n","e","n","t">>,
                             Some(open \o <<"Z","e","n","L","i","n","k"," ","t","o","=","\"","$","1","\"",">","$","0","<","/","Z","e","n","L","i","n","k",">">>), Some(<<"0","_","Z","e","n","L","i","n","k">>)) >>
                ELSE << >>)
            \o (IF isAfterOpenBracket \/ (isTypingTag /\ StartsLower(ctx.currentWord))
                THEN ItemsOf(HTML_ELEMENTS,
                             LAMBDA el : ctx.currentWord = << >>
                                         \/ startsWith(el.tag, toLowerCase(ctx.currentWord)),
                             LAMBDA el : Item(el.tag, "Property", <<"H","T","M","L">>,
                                              Some(IF isAfterOpenBracket THEN ElementSnippet(el)
                                                   ELSE <<"<">> \o ElementSnippet(el) \o <<">">>),
                                              Some(<<"1","_">> \o el.tag)))
                ELSE << >>)

\* === INSIDE TAG (attributes) ===
TagItems(ctx, graph, routerEnabled) ==
    LET tagName == The(ctx.tagName)
        elementType == IF tagName = <<"s","l","o","t">> THEN "slot"
                       ELSE IF StartsUpper(tagName) THEN "component" ELSE "element"
        component == resolveComponent(The(graph), tagName)
    IN  ItemsOf(getDirectiveNames,
                LAMBDA directiveName : /\ canPlaceDirective(directiveName, elementType)
                                       /\ WordFits(directiveName, ctx.currentWord),
                LAMBDA directiveName : Item(directiveName, "Keyword", DirectiveCategory(directiveName),
                                            Some(directiveName \o <<"=","\"","$","1","\"">>),
                                            Some(<<"0","_">> \o directiveName)))
        \o (IF ctx.afterAt \/ startsWith(ctx.currentWord, <<"@">>)
            THEN ItemsOf(DOM_EVENTS, LAMBDA ev : TRUE,
                         LAMBDA ev : Item(<<"@">> \o ev, "Event", <<"e","v","e","n","t"," ","b","i","n","d","i","n","g">>,
                                             Some(<<"@">> \o ev \o <<"=","{","$","1","}">>),
                                             Some(<<"1","_","@">> \o ev)))
            ELSE << >>)
        \o (IF ctx.afterColon \/ startsWith(ctx.currentWord, <<":">>)
            THEN ItemsOf(HTML_ATTRIBUTES, LAMBDA attr : TRUE,
                         LAMBDA attr : Item(<<":">> \o attr, "Property", <<"r","e","a","c","t","i","v","e"," ","b","i","n","d","i","n","g">>,
                                            Some(<<":">> \o attr \o <<"=","\"","$","1","\"">>),
                                            Some(<<"1","_",":">> \o attr)))
            ELSE << >>)
        \o (IF StartsUpper(tagName) /\ IsSome(graph) /\ IsSome(component)
            THEN ItemsOf(The(component).props, LAMBDA prop : TRUE,
                         LAMBDA prop : Item(prop, "Property", <<"p","r","o","p"," ","o","f"," ","<">> \o tagName \o <<">">>,
                                            Some(prop \o <<"=","{","$","1","}">>), Some(<<"0","_">> \o prop)))
            ELSE << >>)
        \o (IF routerEnabled /\ tagName = <<"Z","e","n","L","i","n","k">>
            THEN ItemsOf(ZENLINK_PROPS,
                         LAMBDA prop : WordFits(prop.name, ctx.currentWord),
                         LAMBDA prop : Item(prop.name, "Property",
                                            IF prop.required THEN prop.type \o <<" ","(","r","e","q","u","i","r","e","d",")">>
                                            ELSE prop.type,
                                            Some(IF prop.name = <<"t","o">> THEN prop.name \o <<"=","\"","$","1","\"">>
                                                 ELSE prop.name),
                                            Some((IF prop.required THEN <<"0","_">> ELSE <<"1","_">>)
                                                 \o prop.name)))
            ELSE << >>)
        \o ItemsOf(DOM_EVENTS,
                   LAMBDA ev : ctx.currentWord = << >>
                                  \/ startsWith(<<"o","n">> \o ev, toLowerCase(ctx.currentWord)),
                   LAMBDA ev : Item(<<"o","n">> \o ev, "Event", <<"e","v","e","n","t"," ","h","a","n","d","l","e","r">>,
                                       Some(<<"o","n">> \o ev \o <<"=","{","$","1","}">>),
                                       Some(<<"2","_","o","n">> \o ev)))
        \o ItemsOf(HTML_ATTRIBUTES,
                   LAMBDA attr : ctx.currentWord = << >>
                                 \/ startsWith(attr, toLowerCase(ctx.currentWord)),
                   LAMBDA attr : Item(attr, "Property", <<"H","T","M","L"," ","a","t","t","r","i","b","u","t","e">>,
                                      Some(attr \o <<"=","\"","$","1","\"">>), Some(<<"3","_">> \o attr)))

\* === INSIDE ATTRIBUTE VALUE ===
AttributeValueItems(functions, lineBefore) ==
    LET \* line.match(/(?:on\w+|@\w+)=["'{][^"'{}]*$/)
        EventMatch(line) ==
            \E p \in 0..(Len(line) - 1) :
                LET from == IF LitAt(line, p, <<"o","n">>) THEN p + 2 ELSE p + 1
                    e == SkipIn(line, from, WordChars)
                IN  /\ LitAt(line, p, <<"o","n">>) \/ At(line, p) = "@"
                    /\ e > from
                    /\ e + 1 < Len(line)
                    /\ At(line, e) = "="
                    /\ At(line, e + 1) \in Quotes \cup { "{" }
                    /\ \A k \in (e + 2)..(Len(line) - 1) :
                          At(line, k) \notin Quotes \cup { "{", "}" }
    IN  IF ~EventMatch(lineBefore) THEN << >>
        ELSE ItemsOf(functions, LAMBDA func : TRUE,
                     LAMBDA func : Item(func.name, "Function", <<"f","u","n","c","t","i","o","n">>, Some(func.name), None))

\* The completions of connection.onCompletion for an open document, given
\* the graph getProjectGraph returned
Completions(text, position, graph) ==
    LET Tiers(ctx, states, functions, routerEnabled, loopVariables, lineBefore) ==
            (IF ctx.inScript
             THEN ScriptItems(ctx, states, functions, routerEnabled, lineBefore) ELSE << >>)
            \o (IF ctx.inExpression
                THEN ExpressionItems(states, functions, loopVariables, routerEnabled) ELSE << >>)
            \o (IF ctx.inTemplate /\ ~ctx.inExpression /\ ~ctx.inAttributeValue
                THEN TemplateItems(ctx, graph, routerEnabled, lineBefore) ELSE << >>)
            \o (IF ctx.inTag /\ IsSome(ctx.tagName) /\ ~ctx.inAttributeValue
                THEN TagItems(ctx, graph, routerEnabled) ELSE << >>)
            \o (IF ctx.inAttributeValue THEN AttributeValueItems(functions, lineBefore) ELSE << >>)
        \* lineStart is text.lastIndexOf('\n', offset - 1) + 1
        Scanned(offset, script) ==
            Tiers(getPositionContext(text, offset),
                  extractStates(script),
                  extractFunctions(script),
                  hasRouterImport(parseZenithImports(script)),
                  extractLoopVariables(text),
                  substring(text, LastIndexBefore(text, "\n", Max(offset - 1, 0)) + 1, offset))
    IN  Scanned(offsetAt(text, position), getScriptContent(text))
-----------------------------------------------------------------------------
(* The server: the project-graph cache *)

\* A document URI, 'file://' followed by the path
FileUri(p) == [ scheme |-> "file://", path |-> p ]

\* uri.replace('file://', '')
FilePathOf(uri) == uri.path

DocW == FileUri(<< <<"w">>, <<"s","r","c">>, <<"p","a","g","e","s">>, <<"i","n","d","e","x",".","z","e","n">> >>)
DocN == FileUri(<< <<"w">>, <<"p">>, <<"a",".","z","e","n">> >>)
DocUris == { DocW, DocN }

\* The URIs a file-system notification may name
ChangeUris == { FileUri(WConfig), FileUri(WFoo), FileUri(NConfig), DocN }

\* The directories a project root may be
Roots == Directories

MapSet(map, key, value) ==
    [ k \in DOMAIN map \cup { key } |-> IF k = key THEN value ELSE map[k] ]

MapDelete(map, key) == [ k \in DOMAIN map \ { key } |-> map[k] ]

\* The root a URI resolves to on the disk f
RootOfIn(f, uri) == DetectIn(f, dirname(FilePathOf(uri)))

\* getProjectGraph without its projectGraphs.has test: every call builds
GetGraphAlwaysBuilds(c, b, docUri) ==
    LET Built(r, built) ==
            [ graph |-> Some(built), cache |-> MapSet(c, r, built),
              builds |-> [ b EXCEPT ![r] = @ + 1 ] ]
        Rooted(projectRoot) ==
            IF ~IsSome(projectRoot) THEN [ graph |-> None, cache |-> c, builds |-> b ]
            ELSE Built(The(projectRoot),
                       [ obj |-> b[The(projectRoot)] + 1 ] @@ buildProjectGraph(The(projectRoot)))
    IN  Rooted(detectProjectRoot(dirname(FilePathOf(docUri))))

\* getProjectGraph on a cache c with build counts b: the graph returned and
\* the cache and the counts it leaves.  obj is the identity of the graph
\* object that buildProjectGraph allocates.
GetGraph(c, b, docUri) ==
    LET Built(r, built) ==
            [ graph |-> Some(built), cache |-> MapSet(c, r, built),
              builds |-> [ b EXCEPT ![r] = @ + 1 ] ]
        Rooted(projectRoot) ==
            IF ~IsSome(projectRoot) THEN [ graph |-> None, cache |-> c, builds |-> b ]
            ELSE IF has(c, The(projectRoot))
            THEN [ graph |-> Some(c[The(projectRoot)]), cache |-> c, builds |-> b ]
            ELSE Built(The(projectRoot),
                       [ obj |-> b[The(projectRoot)] + 1 ] @@ buildProjectGraph(The(projectRoot)))
    IN  Rooted(detectProjectRoot(dirname(FilePathOf(docUri))))

\* invalidateProjectGraph clearing the whole cache (projectGraphs.clear())
InvalidateClearsAll(c, d, uri) ==
    IF IsSome(detectProjectRoot(dirname(FilePathOf(uri))))
    THEN [ cache |-> << >>,
           removals |-> [ r \in DOMAIN d |-> IF has(c, r) THEN d[r] + 1 ELSE d[r] ] ]
    ELSE [ cache |-> c, removals |-> d ]

\* invalidateProjectGraph on a cache c with removal counts d
Invalidate(c, d, uri) ==
    LET Rooted(projectRoot) ==
            IF IsSome(projectRoot)
            THEN [ cache |-> MapDelete(c, The(projectRoot)),
                   removals |-> IF has(c, The(projectRoot))
                                THEN [ d EXCEPT ![The(projectRoot)] = @ + 1 ] ELSE d ]
            ELSE [ cache |-> c, removals |-> d ]
    IN  Rooted(detectProjectRoot(dirname(FilePathOf(uri))))

\* The loop over params.changes left after its first round
InvalidateFirstOnly(c, d, changes) ==
    IF changes = << >> THEN [ cache |-> c, removals |-> d ]
    ELSE Invalidate(c, d, Head(changes))

\* for (const change of params.changes) invalidateProjectGraph(change.uri)
RECURSIVE InvalidateEach(_, _, _)
InvalidateEach(c, d, changes) ==
    LET Rest(one) == InvalidateEach(one.cache, one.removals, Tail(changes))
    IN  IF changes = << >> THEN [ cache |-> c, removals |-> d ]
        ELSE Rest(Invalidate(c, d, Head(changes)))

\* validateDocument: the graph of the document, its findings, one notification
ValidateOne(c, b, doc) ==
    LET Sent(got, collected) ==
            [ cache |-> got.cache, builds |-> got.builds, graph |-> got.graph,
              threw |-> collected.threw,
              sent |-> IF collected.threw THEN << >>
                       ELSE << [ uri |-> doc.uri, diagnostics |-> collected.diagnostics ] >> ]
        Collect(got) == Sent(got, collectDiagnostics(doc.text, got.graph))
    IN  Collect(GetGraph(c, b, doc.uri))

\* for (const doc of documents.all()) validateDocument(doc)
RECURSIVE ValidateEach(_, _, _)
ValidateEach(c, b, docs) ==
    LET All(one, rest) ==
            [ cache |-> rest.cache, builds |-> rest.builds, sent |-> one.sent \o rest.sent ]
        Rest(one) == All(one, ValidateEach(one.cache, one.builds, Tail(docs)))
    IN  IF docs = << >> THEN [ cache |-> c, builds |-> b, sent |-> << >> ]
        ELSE Rest(ValidateOne(c, b, Head(docs)))

WithinBounds(b) == \A r \in Roots : b[r] <= MaxBuilds

IsOpen(uri) == \E i \in 1..Len(documents) : documents[i].uri = uri

DocumentOf(uri) == documents[CHOOSE i \in 1..Len(documents) : documents[i].uri = uri]

\* The roots the URIs of a change list resolve to on the disk f
RootsOfIn(f, changes) ==
    { The(RootOfIn(f, changes[i])) : i \in { j \in 1..Len(changes) : IsSome(RootOfIn(f, changes[j])) } }

\* What is kept of the last handler: which one it was, the document it was
\* for, the graph getProjectGraph gave it and, of a file-system notification,
\* the roots its URIs resolved to, now and before the latest change on disk.
Event(op, uri, graph, roots, rootsBefore) ==
    [ op |-> op, uri |-> uri, graph |-> graph, roots |-> roots, rootsBefore |-> rootsBefore ]

\* No function applied on its own
NoCall == [ fn |-> "none", args |-> << >>, result |-> None ]

\* documents.onDidOpen
DidOpen(uri, text) ==
    /\ ~IsOpen(uri)
    /\ \E v \in { ValidateOne(projectGraphs, builds, [ uri |-> uri, text |-> text ]) } :
           /\ WithinBounds(v.builds)
           /\ documents' = Append(documents, [ uri |-> uri, text |-> text ])
           /\ projectGraphs' = v.cache
           /\ builds' = v.builds
           /\ sent' = v.sent
           /\ event' = Event("open", Some(uri), v.graph, {}, {})
    /\ reply' = None
    /\ UNCHANGED << fs, fsBefore, removals, call >>

\* documents.onDidChangeContent
DidChangeContent(uri, text) ==
    /\ IsOpen(uri)
    /\ \E v \in { ValidateOne(projectGraphs, builds, [ uri |-> uri, text |-> text ]) } :
           /\ WithinBounds(v.builds)
           /\ documents' = [ i \in 1..Len(documents) |->
                               IF documents[i].uri = uri
                               THEN [ uri |-> uri, text |-> text ] ELSE documents[i] ]
           /\ projectGraphs' = v.cache
           /\ builds' = v.builds
           /\ sent' = v.sent
           /\ event' = Event("change", Some(uri), v.graph, {}, {})
    /\ reply' = None
    /\ UNCHANGED << fs, fsBefore, removals, call >>

\* connection.onDidChangeWatchedFiles
DidChangeWatchedFiles(changes) ==
    \E inv \in { InvalidateEach(projectGraphs, removals, changes) } :
        \E v \in { ValidateEach(inv.cache, builds, documents) } :
            /\ WithinBounds(v.builds)
            /\ projectGraphs' = v.cache
            /\ builds' = v.builds
            /\ removals' = inv.removals
            /\ sent' = v.sent
            /\ event' = Event("watched", None, None, RootsOfIn(fs, changes), RootsOfIn(fsBefore, changes))
            /\ reply' = None
            /\ UNCHANGED << fs, fsBefore, documents, call >>

\* connection.onCompletion: [] for a document that is not open, the
\* completions at the position otherwise, with the position in the event
Completion(uri, position) ==
    /\ IF ~IsOpen(uri)
       THEN /\ reply' = Some(<< >>)
            /\ event' = [ position |-> position ] @@ Event("completion", Some(uri), None, {}, {})
            /\ UNCHANGED << projectGraphs, builds >>
       ELSE \E got \in { GetGraph(projectGraphs, builds, uri) } :
                /\ WithinBounds(got.builds)
                /\ projectGraphs' = got.cache
                /\ builds' = got.builds
                /\ reply' = Some(Completions(DocumentOf(uri).text, position, got.graph))
                /\ event' = [ position |-> position ]
                             @@ Event("completion", Some(uri), got.graph, {}, {})
    /\ sent' = << >>
    /\ UNCHANGED << fs, fsBefore, documents, removals, call >>

\* A file or directory appears on disk
FsCreate(p) ==
    /\ p \notin fs
    /\ dirname(p) \in fs
    /\ fs' = fs \cup { p }
    /\ fsBefore' = fs
    /\ event' = Event("fs", None, None, {}, {})
    /\ sent' = << >>
    /\ reply' = None
    /\ UNCHANGED << projectGraphs, documents, builds, removals, call >>

\* A file or directory, with all below it, disappears from disk
FsDelete(p) ==
    /\ p \in fs
    /\ fs' = { q \in fs : ~IsPrefix(p, q) }
    /\ fsBefore' = fs
    /\ event' = Event("fs", None, None, {}, {})
    /\ sent' = << >>
    /\ reply' = None
    /\ UNCHANGED << projectGraphs, documents, builds, removals, call >>

\* The texts the documents of the cache specification hold
CacheTexts == { <<"<","F","o","o"," ","/",">">> }

\* The change lists of a notification: one URI, or two of different projects
ChangeLists ==
    { << u >> : u \in ChangeUris } \cup { << FileUri(WFoo), FileUri(NConfig) >> }

\* The position of the completion requests of the cache specification:
\* after the tag name of <Foo />, where the graph's components give the props
CachePositions == { [ line |-> 0, character |-> 5 ] }

\* The server as it starts
ServerInit ==
    /\ fs = StaticPaths \cup { WConfig }
    /\ fsBefore = fs
    /\ projectGraphs = << >>
    /\ documents = << >>
    /\ builds = [ r \in Roots |-> 0 ]
    /\ removals = [ r \in Roots |-> 0 ]
    /\ event = Event("init", None, None, {}, {})
    /\ sent = << >>
    /\ reply = None

Init == ServerInit /\ call = NoCall

Next ==
    \/ \E uri \in DocUris, text \in CacheTexts : DidOpen(uri, text)
    \/ \E uri \in DocUris, text \in CacheTexts : DidChangeContent(uri, text)
    \/ \E uri \in DocUris, position \in CachePositions : Completion(uri, position)
    \/ \E changes \in ChangeLists : DidChangeWatchedFiles(changes)
    \/ \E p \in MutablePaths : FsCreate(p)
    \/ \E p \in MutablePaths : FsDelete(p)

Spec == Init /\ [][Next]_vars
-----------------------------------------------------------------------------
(* The server: hover *)

\* resolveExport: the metadata of an export of a core module or of a
\* registered plugin (module is a specifier parseZenithImports kept, so it
\* begins with 'zenith' and is no inherited key)
resolveExport(moduleName, exportName) ==
    LET Named(found) ==
            IF ~IsSome(found) THEN None
            ELSE IF \E i \in 1..Len(The(found).exports) : The(found).exports[i].name = exportName
            THEN Some(The(found).exports[CHOOSE i \in 1..Len(The(found).exports) :
                                            The(found).exports[i].name = exportName])
            ELSE None
    IN  IF isCoreModule(moduleName) THEN Named(getCoreModule(moduleName))
        ELSE IF isKnownPluginModule(moduleName) THEN Named(getPluginModule(moduleName))
        ELSE None

\* The reply of connection.onHover for an open document on a cache c with
\* build counts b, and the cache and the counts it leaves: getProjectGraph is
\* only called when no earlier source explains the word.  An explanation is
\* kept as the source it comes from, its subject and what it tells of it.
HoverOf(c, b, uri, text, position) ==
    LET Explain(source, subject, detail) ==
            Some([ source |-> source, subject |-> subject, detail |-> detail ])
        Reply(r) == [ reply |-> r, cache |-> c, builds |-> b, graph |-> None ]
        \* wordBefore + wordAfter
        WordAt(offset) ==
            SubSeq(text,
                   Least({ k \in 0..offset :
                             \A j \in k..(offset - 1) :
                                At(text, j) \in WordChars \cup { "$", ":", "@", "-" } }, offset) + 1,
                   Greatest({ e \in offset..Len(text) :
                                \A j \in offset..(e - 1) :
                                   At(text, j) \in WordChars \cup { "$", ":", "-" } }, offset))
        \* Check HTML elements
        Element(word) ==
            IF \E i \in 1..Len(HTML_ELEMENTS) : HTML_ELEMENTS[i].tag = word
            THEN Explain("HTML", word, << >>)
            ELSE None
        \* Check components
        Component(word, found) ==
            IF IsSome(found)
            THEN Explain(The(found).type, The(found).name,
                         [ filePath |-> The(found).filePath, props |-> The(found).props ])
            ELSE Element(word)
        InGraph(word, got) ==
            [ reply |-> IF IsSome(got.graph)
                        THEN Component(word, resolveComponent(The(got.graph), word))
                        ELSE Element(word),
              cache |-> got.cache, builds |-> got.builds, graph |-> got.graph ]
        \* Check imports: the first import that names the word and whose
        \* module has metadata for it
        Imported(word, imports) ==
            { i \in 1..Len(imports) :
                /\ word \in SeqToSet(imports[i].specifiers)
                /\ IsSome(resolveExport(imports[i].module, word)) }
        ImportOf(word, imp) ==
            Explain("import", word,
                    [ owner |-> resolveModule(imp.module).kind, module |-> imp.module ])
        FunctionOf(f) ==
            Explain("function", f.name, [ isAsync |-> f.isAsync, params |-> f.params ])
        Declared(word, states, functions, imports) ==
            IF word = << >> THEN Reply(None)
            \* Check directives (zen:if, zen:for, etc.)
            ELSE IF isDirective(word)
            \* (getDirective gives what Object.prototype holds under an
            \* inherited key, which is truthy as well)
            THEN Reply(Explain("directive", word,
                               [ inherited |-> word \notin SeqToSet(DirectiveNames) ]))
            \* Check router hooks (the inherited keys are all taken above)
            ELSE IF \E i \in 1..Len(ROUTER_HOOKS) : ROUTER_HOOKS[i].name = word
            THEN Reply(Explain("router hook", word, << >>))
            \* Check lifecycle hooks
            ELSE IF \E i \in 1..Len(LIFECYCLE_HOOKS) : LIFECYCLE_HOOKS[i].name = word
            THEN Reply(Explain("lifecycle hook", word, << >>))
            \* Check ZenLink
            ELSE IF word = <<"Z","e","n","L","i","n","k">> /\ hasRouterImport(imports)
            THEN Reply(Explain("router component", word, << >>))
            \* Check states
            ELSE IF MapHas(states, word)
            THEN Reply(Explain("state", word, MapGet(states, word)))
            \* Check functions
            ELSE IF \E i \in 1..Len(functions) : functions[i].name = word
            THEN Reply(FunctionOf(functions[CHOOSE i \in 1..Len(functions) :
                                               /\ functions[i].name = word
                                               /\ \A j \in 1..(i - 1) : functions[j].name # word]))
            ELSE IF Imported(word, imports) # {}
            THEN Reply(ImportOf(word, imports[Least(Imported(word, imports), 0)]))
            ELSE InGraph(word, GetGraph(c, b, uri))
        Scanned(word, script) ==
            Declared(word, extractStates(script), extractFunctions(script),
                     parseZenithImports(script))
    IN  Scanned(WordAt(offsetAt(text, position)), getScriptContent(text))

\* connection.onHover: null for a document that is not open
Hover(uri, position) ==
    /\ IF ~IsOpen(uri)
       THEN /\ reply' = None
            /\ event' = [ position |-> position ] @@ Event("hover", Some(uri), None, {}, {})
            /\ UNCHANGED << projectGraphs, builds >>
       ELSE \E got \in { HoverOf(projectGraphs, builds, uri, DocumentOf(uri).text, position) } :
                /\ WithinBounds(got.builds)
                /\ projectGraphs' = got.cache
                /\ builds' = got.builds
                /\ reply' = got.reply
                /\ event' = [ position |-> position ]
                             @@ Event("hover", Some(uri), got.graph, {}, {})
    /\ sent' = << >>
    /\ UNCHANGED << fs, fsBefore, documents, removals, call >>

\* The server with every handler that reaches the project-graph cache: the
\* handlers of the cache specification and connection.onHover
NextRequests ==
    \/ Next
    \/ \E uri \in DocUris, position \in CachePositions : Hover(uri, position)

SpecRequests == Init /\ [][NextRequests]_vars

-----------------------------------------------------------------------------
(* The functions of the server applied on their own *)

\* A call that waits to be applied, and the call once applied
Call(fn, args) == [ fn |-> fn, args |-> args, result |-> None ]

Pending(fn) == call.fn = fn /\ ~IsSome(call.result)

Return(value) ==
    /\ call' = [ call EXCEPT !.result = Some(value) ]
    /\ UNCHANGED << fs, fsBefore, projectGraphs, documents, builds, removals, event, sent, reply >>

Returned(fn) == call.fn = fn /\ IsSome(call.result)

\* All the texts made of at most n of the pieces, one after the other
RECURSIVE Concatenations(_, _)
Concatenations(pieces, n) ==
    IF n = 0 THEN { << >> }
    ELSE LET shorter == Concatenations(pieces, n - 1)
         IN  shorter \cup { s \o p : s \in shorter, p \in pieces }

\* resolveModule: the specifiers it is given
MaxSpecifierPieces == 3

ResolveModule ==
    /\ Pending("resolveModule")
    /\ Return(resolveModule(call.args))

InitResolve ==
    LET SpecifierPieces ==
            { <<"z","e","n","i","t","h">>, <<":">>, <<"/">>, <<"r","o","u","t","e","r">>, <<"c","o","n","t","e","n","t">>, <<"i","m","a","g","e">>, <<"x">>,
              <<"c","o","n","s","t","r","u","c","t","o","r">>, <<"t","o","S","t","r","i","n","g">>, <<"_","_","p","r","o","t","o","_","_">>, <<"r","e","a","c","t">> }
        ModuleSpecifiers == Concatenations(SpecifierPieces, MaxSpecifierPieces)
    IN  ServerInit /\ call \in { Call("resolveModule", m) : m \in ModuleSpecifiers }

SpecResolve == InitResolve /\ [][ResolveModule]_vars

\* parseForExpression: the directive values it is given
MaxForPieces == 4

ParseForExpression ==
    /\ Pending("parseForExpression")
    /\ Return(parseForExpression(call.args))

InitFor ==
    LET ForPieces ==
            { <<"i","t","e","m">>, <<"i","t","e","m",","," ","i","n","d","e","x">>, <<" ","i","n"," ">>, <<"i","n">>, <<" ">>, <<"i","t","e","m","s">>, <<",">>, <<"\n">>, <<"1">>, <<"$","i">>,
              <<"a","\n","b">> }
        ForExpressions == Concatenations(ForPieces, MaxForPieces)
    IN  ServerInit /\ call \in { Call("parseForExpression", e) : e \in ForExpressions }

SpecFor == InitFor /\ [][ParseForExpression]_vars

\* extractStates: the scripts it is given, lines one under the other
MaxScriptLines == 3

ExtractStates ==
    /\ Pending("extractStates")
    /\ Return(extractStates(call.args))

InitStates ==
    LET ScriptLines ==
            { <<"s","t","a","t","e"," ","a"," ","="," ","1">>, <<"s","t","a","t","e"," ","a"," ","="," ","2",";">>, <<"s","t","a","t","e"," ","b"," ","="," ","a"," ","+"," ","1"," ",";"," ","b">>, <<"s","t","a","t","e"," ","a"," ","=">>, <<"s","t","a","t","e"," ","b"," ","="," ","2">>,
              <<" "," ","s","t","a","t","e"," ","c","="," "," ","x"," ","y"," "," ">>, <<"l","e","t"," ","a"," ","="," ","3">>, <<>>, <<"s","t","a","t","e"," ","a"," ","="," ">> }
        RECURSIVE Scripts(_)
        Scripts(n) ==
            IF n = 1 THEN ScriptLines
            ELSE Scripts(n - 1) \cup { s \o <<"\n">> \o l : s \in Scripts(n - 1), l \in ScriptLines }
    IN  ServerInit /\ call \in { Call("extractStates", s) : s \in Scripts(MaxScriptLines) }

SpecStates == InitStates /\ [][ExtractStates]_vars

\* getPositionContext: documents with one script block, and every offset
MaxContentPieces == 2

GetPositionContext ==
    /\ Pending("getPositionContext")
    /\ Return(getPositionContext(call.args.document.text, call.args.offset))

InitContext ==
    LET ContentPieces ==
            { <<"l","e","t"," ","a"," ","="," ","1">>, <<"\n">>, <<"{">>, <<"}">>, <<"a"," ","<"," ","b">>, <<"\"","<","s","t","y","l","e",">","\"">>, <<"/","/"," ","<","/","s","t","y","l","e",">">>,
              <<"x"," ","="," ","'","<","p",">","'">>, <<"<","s","c","r","i","p","t",">">> }
        ScriptContents == Concatenations(ContentPieces, MaxContentPieces)
        BeforeScript == { << >>, <<"<","p",">","{","a","}","<","/","p",">","\n">> }
        AfterScript == { << >>, <<"\n","<","p"," ","i","d","=","\"","x","\"",">","{","a","}","<","/","p",">">> }
        ScriptDocument(before, content, after) ==
            [ text |-> before \o <<"<","s","c","r","i","p","t",">">> \o content \o <<"<","/","s","c","r","i","p","t",">">> \o after,
              contentStart |-> Len(before \o <<"<","s","c","r","i","p","t",">">>),
              contentEnd |-> Len(before \o <<"<","s","c","r","i","p","t",">">> \o content) ]
        ScriptDocuments ==
            { ScriptDocument(b, c, a) : b \in BeforeScript, c \in ScriptContents, a \in AfterScript }
    IN  /\ ServerInit
        /\ call \in UNION { { Call("getPositionContext", [ document |-> d, offset |-> o ]) :
                                o \in 0..Len(d.text) } : d \in ScriptDocuments }

SpecContext == InitContext /\ [][GetPositionContext]_vars

\* collectImportDiagnostics: documents whose script is import lines
MaxImportLines == 2

CollectImportDiagnostics ==
    /\ Pending("collectImportDiagnostics")
    /\ Return(collectImportDiagnostics(call.args))

InitImports ==
    LET ImportLines ==
            { <<"i","m","p","o","r","t"," ","{"," ","g","e","t","E","n","t","r","y"," ","}"," ","f","r","o","m"," ","'","z","e","n","i","t","h",":","c","o","n","t","e","n","t","'">>,
              <<"i","m","p","o","r","t"," ","{"," ","g","e","t","E","n","t","r","y",","," ","n","o","p","e"," ","}"," ","f","r","o","m"," ","'","z","e","n","i","t","h",":","c","o","n","t","e","n","t","'">>,
              <<"i","m","p","o","r","t"," ","{"," ","I","m","a","g","e"," ","a","s"," ","I","m","g",","," ","P","i","c","t","u","r","e"," ","}"," ","f","r","o","m"," ","\"","z","e","n","i","t","h",":","i","m","a","g","e","\"">>,
              <<"i","m","p","o","r","t"," ","'","z","e","n","i","t","h",":","i","m","a","g","e","'">>,
              <<"i","m","p","o","r","t"," ","{"," ","t","h","i","n","g"," ","}"," ","f","r","o","m"," ","'","z","e","n","i","t","h",":","f","o","o","'">>,
              <<"i","m","p","o","r","t"," ","f","o","o"," ","f","r","o","m"," ","'","z","e","n","i","t","h",":","f","o","o","'">>,
              <<"i","m","p","o","r","t"," ","'","z","e","n","i","t","h",":","b","a","r","'">>,
              <<"i","m","p","o","r","t"," ","t","y","p","e"," ","{"," ","E","n","t","r","y"," ","}"," ","f","r","o","m"," ","'","z","e","n","i","t","h",":","c","o","n","t","e","n","t","'">>,
              <<"i","m","p","o","r","t"," ","{"," ","z","e","n","R","e","f",","," ","n","o","p","e"," ","}"," ","f","r","o","m"," ","'","z","e","n","i","t","h","'">>,
              <<"i","m","p","o","r","t"," ","{"," ","u","s","e","R","o","u","t","e"," ","}"," ","f","r","o","m"," ","'","z","e","n","i","t","h","/","r","o","u","t","e","r","'">>,
              <<"i","m","p","o","r","t"," ","x"," ","f","r","o","m"," ","'","r","e","a","c","t","'">>,
              <<"i","m","p","o","r","t"," ","*"," ","a","s"," ","c","o","n","t","e","n","t"," ","f","r","o","m"," ","'","z","e","n","i","t","h",":","c","o","n","t","e","n","t","'">>,
              <<"i","m","p","o","r","t"," ","{"," ","$","x"," ","}"," ","f","r","o","m"," ","'","z","e","n","i","t","h","'">>,
              <<"i","m","p","o","r","t"," ","{"," ","g","o"," ","}"," ","f","r","o","m"," ","'","z","e","n","i","t","h","/","n","a","v","'">>,
              <<"c","o","n","s","t"," ","n","o","p","e"," ","="," ","1">> }
        RECURSIVE ImportScripts(_)
        ImportScripts(n) ==
            IF n = 1 THEN ImportLines
            ELSE ImportScripts(n - 1) \cup { s \o <<"\n">> \o l : s \in ImportScripts(n - 1), l \in ImportLines }
    IN  /\ ServerInit
        /\ call \in { Call("collectImportDiagnostics", <<"<","s","c","r","i","p","t",">","\n">> \o s \o <<"\n","<","/","s","c","r","i","p","t",">","\n","<","p",">","h","i","<","/","p",">">>) :
                        s \in ImportScripts(MaxImportLines) }

SpecImports == InitImports /\ [][CollectImportDiagnostics]_vars


\* buildProjectGraph: the trees below w/src it is given.  Each of layouts,
\* components, components/ui and pages is there or not; each .zen file of a
\* directory that is there is missing, readable or unreadable.
BuildFiles == { WMain, WFoo, WBar, WIndex }

BuildDisks ==
    LET Trees == { t \in SUBSET ({ WLayouts, WComponents, WUi, WPages } \cup BuildFiles) :
                     /\ \A p \in t : Len(p) > 3 => dirname(p) \in t }
        Unreadable(t) == { { ReadError(p) : p \in u } : u \in SUBSET (t \cap BuildFiles) }
    IN  UNION { { { W, WSrc } \cup t \cup e : e \in Unreadable(t) } : t \in Trees }

BuildProjectGraph ==
    /\ Pending("buildProjectGraph")
    /\ Return(BuildIn(call.args.disk, call.args.root))

InitBuild ==
    ServerInit /\ call \in { Call("buildProjectGraph", [ disk |-> d, root |-> W ]) : d \in BuildDisks }

SpecBuild == InitBuild /\ [][BuildProjectGraph]_vars

\* parseZenithImports: scripts of import lines, each line with the module its
\* statement names (None for a line that holds no import) and the names it
\* imports
MaxParseLines == 2

ParseLines ==
    LET Line(text, module, names) == [ text |-> text, module |-> module, names |-> names ]
    IN  { Line(<<"i","m","p","o","r","t"," ","{"," ","a",","," ","b"," ","a","s"," ","c"," ","}"," ","f","r","o","m"," ","'","z","e","n","i","t","h","'">>, Some(<<"z","e","n","i","t","h">>), << <<"a">>, <<"b">> >>),
          Line(<<"i","m","p","o","r","t"," ","*"," ","a","s"," ","r"," ","f","r","o","m"," ","\"","z","e","n","i","t","h","/","r","o","u","t","e","r","\"">>, Some(<<"z","e","n","i","t","h","/","r","o","u","t","e","r">>), << <<"*"," ","a","s"," ","r">> >>),
          Line(<<"i","m","p","o","r","t"," ","d"," ","f","r","o","m"," ","'","z","e","n","i","t","h",":","c","o","n","t","e","n","t","'">>, Some(<<"z","e","n","i","t","h",":","c","o","n","t","e","n","t">>), << <<"d">> >>),
          Line(<<"i","m","p","o","r","t"," ","t","y","p","e"," ","{"," ","T"," ","}"," ","f","r","o","m"," ","'","z","e","n","i","t","h","'">>, Some(<<"z","e","n","i","t","h">>), << <<"T">> >>),
          Line(<<"i","m","p","o","r","t"," ","'","z","e","n","i","t","h",":","i","m","a","g","e","'">>, Some(<<"z","e","n","i","t","h",":","i","m","a","g","e">>), << >>),
          Line(<<"i","m","p","o","r","t"," ","{"," ","z"," ","}"," ","f","r","o","m"," ","'","z","e","n","i","t","h","a","l","'">>, Some(<<"z","e","n","i","t","h","a","l">>), << <<"z">> >>),
          Line(<<"i","m","p","o","r","t"," ","x"," ","f","r","o","m"," ","'","r","e","a","c","t","'">>, Some(<<"r","e","a","c","t">>), << <<"x">> >>),
          Line(<<"i","m","p","o","r","t"," ","'",".","/","z","e","n","i","t","h","'">>, Some(<<".","/","z","e","n","i","t","h">>), << >>),
          Line(<<"l","e","t"," ","z","e","n"," ","="," ","'","z","e","n","i","t","h","'">>, None, << >>),
          Line(<<"i","m","p","o","r","t"," ","D",","," ","{"," ","a"," ","}"," ","f","r","o","m"," ","'","z","e","n","i","t","h","/","r","o","u","t","e","r","'">>, Some(<<"z","e","n","i","t","h","/","r","o","u","t","e","r">>), << <<"D">>, <<"a">> >>),
          Line(<<"i","m","p","o","r","t"," ","$","s"," ","f","r","o","m"," ","'","z","e","n","i","t","h","'">>, Some(<<"z","e","n","i","t","h">>), << <<"$","s">> >>) }

ParseZenithImports ==
    /\ Pending("parseZenithImports")
    /\ Return(parseZenithImports(call.args))

InitParse ==
    LET RECURSIVE ParseScripts(_)
        ParseScripts(n) ==
            IF n = 1 THEN { l.text : l \in ParseLines }
            ELSE ParseScripts(n - 1)
                   \cup { s \o <<"\n">> \o l.text : s \in ParseScripts(n - 1), l \in ParseLines }
    IN  ServerInit /\ call \in { Call("parseZenithImports", s) : s \in ParseScripts(MaxParseLines) }

SpecParse == InitParse /\ [][ParseZenithImports]_vars

\* extractFunctions: scripts of declaration lines, each line with the function
\* it declares (None for a line that declares none)
MaxFunctionLines == 2

FunctionLines ==
    LET Line(text, declared) == [ text |-> text, declared |-> declared ]
        Fn(name, params, isAsync) == Some([ name |-> name, params |-> params, isAsync |-> isAsync ])
    IN  { Line(<<"f","u","n","c","t","i","o","n"," ","f","(","a",","," ","b",")"," ","{","}">>, Fn(<<"f">>, <<"a",","," ","b">>, FALSE)),
          Line(<<"a","s","y","n","c"," ","f","u","n","c","t","i","o","n"," ","g","(","x",")"," ","{","}">>, Fn(<<"g">>, <<"x">>, TRUE)),
          Line(<<"f","u","n","c","t","i","o","n"," ","$","h"," ","(",")"," ","{","}">>, Fn(<<"$","h">>, << >>, FALSE)),
          Line(<<"c","o","n","s","t"," ","a","d","d"," ","="," ","(","a",","," ","b",")"," ","=",">"," ","a"," ","+"," ","b">>, Fn(<<"a","d","d">>, <<"a",","," ","b">>, FALSE)),
          Line(<<"l","e","t"," ","k"," ","="," ","a","s","y","n","c"," ","(",")"," ","=",">"," ","1">>, Fn(<<"k">>, << >>, TRUE)),
          Line(<<"c","o","n","s","t"," ","p"," ","="," ","a","s","y","n","c"," ","(","c",")"," ","=",">"," ","c">>, Fn(<<"p">>, <<"c">>, TRUE)),
          Line(<<"c","o","n","s","t"," ","n"," ","="," ","1">>, None),
          Line(<<"s","t","a","t","e"," ","s"," ","="," ","0">>, None) }

ExtractFunctions ==
    /\ Pending("extractFunctions")
    /\ Return(extractFunctions(call.args))

InitFunctions ==
    LET RECURSIVE FunctionScripts(_)
        FunctionScripts(n) ==
            IF n = 1 THEN { l.text : l \in FunctionLines }
            ELSE FunctionScripts(n - 1)
                   \cup { s \o <<"\n">> \o l.text : s \in FunctionScripts(n - 1), l \in FunctionLines }
    IN  ServerInit /\ call \in { Call("extractFunctions", s) : s \in FunctionScripts(MaxFunctionLines) }

SpecFunctions == InitFunctions /\ [][ExtractFunctions]_vars

\* detectProjectRoot and buildProjectGraph on disks with src and app
\* directories.  detectProjectRoot is given a start directory and a disk with
\* or without the marker file and the src and app directories, at the
\* filesystem root and in w; buildProjectGraph is given w and a disk with src
\* and app trees in it.
DetectProjectRoot ==
    /\ Pending("detectProjectRoot")
    /\ Return(DetectIn(call.args.disk, call.args.start))

InitRoot ==
    LET Closed(paths) == { t \in SUBSET paths : \A p \in t : Len(p) > 1 => dirname(p) \in t \cup { W } }
        DetectDisks ==
            Closed({ << <<"z","e","n","i","t","h",".","c","o","n","f","i","g",".","t","s">> >>, << <<"s","r","c">> >>, << <<"s","r","c">>, <<"p","a","g","e","s">> >>,
                     WConfig, WSrc, WPages, WLayouts, WApp, WAppPages, WAppLayouts })
        Starts == { << >>, W, WSrc, << <<"w">>, <<"x">>, <<"y">> >> }
        TreeDisks ==
            Closed({ WSrc, WPages, WIndex, WComponents, WFoo,
                     WApp, WAppPages, WAppHome, WAppLayouts, WAppBase })
    IN  /\ ServerInit
        /\ call \in { Call("detectProjectRoot", [ disk |-> { W } \cup d, start |-> s ]) :
                         d \in DetectDisks, s \in Starts }
                     \cup { Call("buildProjectGraph", [ disk |-> { W } \cup d, root |-> W ]) :
                              d \in TreeDisks }

SpecRoot == InitRoot /\ [][DetectProjectRoot \/ BuildProjectGraph]_vars

\* collectDirectiveDiagnostics: texts of at most MaxTags tags, one after the
\* other, each tag with one directive: its name, where the occurrence starts
\* and ends in the tag (from 'zen:' to the closing quote), and whether its
\* value is empty or white space
MaxTags == 2

DirectiveTags ==
    LET Tag(text, name, from, to, blank) ==
            [ text |-> text, name |-> name, from |-> from, to |-> to, blank |-> blank ]
    IN  { Tag(<<"<","p"," ","z","e","n",":","i","f","=","\"","\"",">">>, <<"z","e","n",":","i","f">>, 3, 12, TRUE),
          Tag(<<"<","p"," ","z","e","n",":","s","h","o","w","=","'"," ","'",">">>, <<"z","e","n",":","s","h","o","w">>, 3, 15, TRUE),
          Tag(<<"<","p"," ","z","e","n",":","e","f","f","e","c","t"," ","="," ","\"","\t","\"",">">>, <<"z","e","n",":","e","f","f","e","c","t">>, 3, 19, TRUE),
          Tag(<<"<","p"," ","z","e","n",":","e","f","f","e","c","t","=","\"","x","\"",">">>, <<"z","e","n",":","e","f","f","e","c","t">>, 3, 17, FALSE),
          Tag(<<"<","l","i"," ","z","e","n",":","f","o","r","=","\"","\"",">">>, <<"z","e","n",":","f","o","r">>, 4, 14, TRUE),
          Tag(<<"<","l","i"," ","z","e","n",":","f","o","r","=","\""," ","\n","\"",">">>, <<"z","e","n",":","f","o","r">>, 4, 16, TRUE),
          Tag(<<"<","l","i"," ","z","e","n",":","f","o","r","=","\"","a"," ","i","n"," ","b","\"",">">>, <<"z","e","n",":","f","o","r">>, 4, 20, FALSE),
          Tag(<<"<","l","i"," ","z","e","n",":","f","o","r","=","\"","b","a","d","\"",">">>, <<"z","e","n",":","f","o","r">>, 4, 17, FALSE),
          Tag(<<"<","s","l","o","t"," ","z","e","n",":","f","o","r","=","\"","b","a","d","\"",">">>, <<"z","e","n",":","f","o","r">>, 6, 19, FALSE),
          Tag(<<"<","s","l","o","t"," ","z","e","n",":","f","o","r","=","\"","\"",">","\n">>, <<"z","e","n",":","f","o","r">>, 6, 16, TRUE) }

CollectDirectiveDiagnostics ==
    /\ Pending("collectDirectiveDiagnostics")
    /\ Return(collectDirectiveDiagnostics(call.args.text))

InitDirectives ==
    LET Occurrence(tag, shift) ==
            [ name |-> tag.name, from |-> shift + tag.from, to |-> shift + tag.to, blank |-> tag.blank ]
        RECURSIVE TaggedTexts(_)
        TaggedTexts(n) ==
            IF n = 1 THEN { [ text |-> t.text, occurrences |-> << Occurrence(t, 0) >> ] : t \in DirectiveTags }
            ELSE TaggedTexts(n - 1)
                   \cup { [ text |-> d.text \o t.text,
                            occurrences |-> Append(d.occurrences, Occurrence(t, Len(d.text))) ] :
                            d \in TaggedTexts(n - 1), t \in DirectiveTags }
    IN  ServerInit /\ call \in { Call("collectDirectiveDiagnostics", d) : d \in TaggedTexts(MaxTags) }

SpecDirectives == InitDirectives /\ [][CollectDirectiveDiagnostics]_vars
-----------------------------------------------------------------------------
(* An editing session on a disk that does not change *)

\* The texts the document of the session holds
EditTexts ==
    { <<"<","s","c","r","i","p","t",">","\n","s","t","a","t","e"," ","c","o","u","n","t"," ","="," ","0","\n","<","/","s","c","r","i","p","t",">","\n","{","c","o","u","n","t","}">>,
      <<"<","s","c","r","i","p","t",">","s","t","a","t","e"," ","c","o","u","n","t"," ","="," ","0","<","/","s","c","r","i","p","t",">","<","p",">","{","c","o","u","n","t","}","<","/","p",">">>,
      <<"<","s","c","r","i","p","t",">","\n","i","m","p","o","r","t"," ","{"," ","x"," ","}"," ","f","r","o","m"," ","'","z","e","n","i","t","h","/","r","o","u","t","e","r","'","\n","s","t","a","t","e"," ","c","o","u","n","t"," ","="," ","0","\n","<","/","s","c","r","i","p","t",">","\n","<","F","o","o"," ","/",">","\n","{","c","o","u","n","t","}">>,
      <<"<","p",">","{","c","o","u","n","t","}","<","/","p",">","\n","<","s","c","r","i","p","t",">","\n","s","t","a","t","e"," ","c","o","u","n","t"," ","="," ","0",";","\n","f","u","n","c","t","i","o","n"," ","i","n","c","(",")"," ","{","}","\n","<","/","s","c","r","i","p","t",">">>,
      <<"<","s","c","r","i","p","t",">","\n","s","t","a","t","e"," ","c","o","u","n","t"," ","="," ","0","\n","<","/","s","c","r","i","p","t",">","\n","<","l","i"," ","z","e","n",":","f","o","r","=","\"","i","t","e","m"," ","i","n"," ","i","t","e","m","s","\"",">","{","c","o","u","n","t","}","<","/","l","i",">">>,
      <<"<","s","c","r","i","p","t",">","\n","i","m","p","o","r","t"," ","{"," ","y"," ","}"," ","f","r","o","m"," ","'","z","e","n","i","t","h",":","f","o","o","'","\n","s","t","a","t","e"," ","n"," ","="," ","1","\n","s","t","a","t","e"," ","c","o","u","n","t"," ","="," ","0","\n","<","/","s","c","r","i","p","t",">","\n","<","p",">","\n"," ","<","F","o","o"," ","/",">","\n","<","/","p",">","{","c","o","u","n","t","}">>,
      <<"<","F","o","o"," ","/",">">>,
      <<"<","s","c","r","i","p","t",">","\n","l","e","t"," ","o","t","h","e","r"," ","="," ","1","\n","<","/","s","c","r","i","p","t",">","\n","{","c","o","u","n","t","}">>,
      <<"<","s","c","r","i","p","t",">","\n","i","m","p","o","r","t"," ","*"," ","a","s"," ","r"," ","f","r","o","m"," ","'","z","e","n","i","t","h","/","r","o","u","t","e","r","'","\n","<","/","s","c","r","i","p","t",">","\n","{","e","v","a","l","(","1",")","}">>,
      <<"<","s","c","r","i","p","t",">","\n","l","e","t"," ","c"," ","="," ","a","<","b"," ","\n","<","/","s","c","r","i","p","t",">">> }

\* The positions a completion request for uri may name: those of the text
\* of the document, the start for a document that is not open
PositionsOf(uri) ==
    IF IsOpen(uri)
    THEN { positionAt(DocumentOf(uri).text, o) : o \in 0..Len(DocumentOf(uri).text) }
    ELSE { [ line |-> 0, character |-> 0 ] }

NextEditing ==
    \/ \E text \in EditTexts : DidOpen(DocW, text)
    \/ \E text \in EditTexts : DidChangeContent(DocW, text)
    \/ \E uri \in DocUris : \E position \in PositionsOf(uri) : Completion(uri, position)

SpecEditing == Init /\ [][NextEditing]_vars


-----------------------------------------------------------------------------
(* Hover requests on a document of a project that has the component Foo *)

\* The texts the document holds
HoverTexts ==
    { <<"<","s","c","r","i","p","t",">","\n","i","m","p","o","r","t"," ","{"," ","u","s","e","R","o","u","t","e",","," ","Z","e","n","L","i","n","k"," ","}"," ","f","r","o","m"," ","'","z","e","n","i","t","h","/","r","o","u","t","e","r","'","\n","s","t","a","t","e"," ","p"," ","="," ","1","\n","f","u","n","c","t","i","o","n"," ","p","(",")"," ","{","}","\n","s","t","a","t","e"," ","F","o","o"," ","="," ","3","\n","s","t","a","t","e"," ","t","o","S","t","r","i","n","g"," ","="," ","2","\n","f","u","n","c","t","i","o","n"," ","t","o","S","t","r","i","n","g","(",")"," ","{","}","\n","<","/","s","c","r","i","p","t",">","\n","<","p",">","<","Z","e","n","L","i","n","k"," ","/",">","<","F","o","o"," ","/",">","<","/","p",">">>,
      <<"<","F","o","o"," ","z","e","n",":","i","f","=","\"","a","\"",">","<","d","i","v",">","{","z","e","n","O","n","M","o","u","n","t","}","<","/","d","i","v",">","<","/","F","o","o",">">>,
      <<"<","b",">","{","c","o","n","s","t","r","u","c","t","o","r","}","<","/","b",">">> }

InitHover ==
    /\ fs = StaticPaths \cup { WConfig, WFoo }
    /\ fsBefore = fs
    /\ projectGraphs = << >>
    /\ documents = << >>
    /\ builds = [ r \in Roots |-> 0 ]
    /\ removals = [ r \in Roots |-> 0 ]
    /\ event = Event("init", None, None, {}, {})
    /\ sent = << >>
    /\ reply = None
    /\ call = NoCall

NextHover ==
    \/ \E text \in HoverTexts : DidOpen(DocW, text)
    \/ \E uri \in DocUris : \E position \in PositionsOf(uri) : Hover(uri, position)

SpecHover == InitHover /\ [][NextHover]_vars

-----------------------------------------------------------------------------
(* Completion in the tags of a document of a project that has the layout
   Main and the component Foo *)

\* The texts the document holds
TagTexts ==
    { <<"<","F","o">>,
      <<"<","p",">","F","o">>,
      <<"<">>,
      <<"<","s","e","c","t","i","o","n",">","\n"," "," ","<","M">>,
      <<"<","F","o","o"," ","z","e","n",":","f">>,
      <<"<","F","o","o"," ","t","i","t","l","e","=","\"","x","\""," ","z">>,
      <<"<","s","l","o","t"," ","z">>,
      <<"<","M","a","i","n",">","<","s","l","o","t"," ","z","e","n">>,
      <<"<","d","i","v"," ","z">>,
      <<"<","l","i"," ">>,
      <<"<","d","i","v"," ","c","l","a","s","s","=","\"","a","\""," ","z","e","n",":","s">> }

InitTags ==
    /\ fs = StaticPaths \cup { WConfig, WFoo, WLayouts, WMain }
    /\ fsBefore = fs
    /\ projectGraphs = << >>
    /\ documents = << >>
    /\ builds = [ r \in Roots |-> 0 ]
    /\ removals = [ r \in Roots |-> 0 ]
    /\ event = Event("init", None, None, {}, {})
    /\ sent = << >>
    /\ reply = None
    /\ call = NoCall

NextTags ==
    \/ \E text \in TagTexts : DidOpen(DocW, text)
    \/ \E uri \in DocUris : \E position \in PositionsOf(uri) : Completion(uri, position)

SpecTags == InitTags /\ [][NextTags]_vars
-----------------------------------------------------------------------------
(* The project-graph cache: claims *)

\* C1: a file-system notification whose URIs all resolve to roots other than r
\* leaves the cache entry of r as it was: the same graph object, not rebuilt.
C1_UnrelatedRootKept ==
    [][ \A r \in DOMAIN projectGraphs :
          (event'.op = "watched" /\ r \notin event'.roots)
          => /\ has(projectGraphs', r)
             /\ projectGraphs'[r] = projectGraphs[r]
             /\ builds'[r] = builds[r] ]_cacheVars

\* A notification for the nested root alone has been handled, the nested
\* root's graph was dropped and built again, the outer root's graph is cached.
C1_Witness ==
    /\ event.op = "watched"
    /\ event.roots = { N }
    /\ has(projectGraphs, W)
    /\ has(projectGraphs, N)
    /\ projectGraphs[N].obj >= 2

\* C2: a file-system notification naming a URI that lay, before the change on
\* disk, in the project cached under r removes the entry of r: after the
\* handler r is not cached, or is cached with a graph built anew.
C2_EntryRemovedOnAnyChange ==
    [][ \A r \in DOMAIN projectGraphs :
          (event'.op = "watched" /\ r \in event'.rootsBefore)
          => \/ ~has(projectGraphs', r)
             \/ projectGraphs'[r].obj # projectGraphs[r].obj ]_cacheVars

\* C3: a root's graph is built once per removal of its entry, and only when a
\* request finds no entry: the builds of a root are its removals, plus one
\* while it is cached; a request is answered with the stored graph.
C3_BuiltOncePerInvalidation ==
    /\ \A r \in Roots :
          builds[r] = removals[r] + (IF has(projectGraphs, r) THEN 1 ELSE 0)
    /\ (event.op \in { "open", "change", "completion" } /\ IsSome(event.graph))
          => LET root == RootOfIn(fs, The(event.uri))
             IN  /\ IsSome(root)
                 /\ has(projectGraphs, The(root))
                 /\ projectGraphs[The(root)] = The(event.graph)

\* A request answered from an entry that was built, removed and built again
C3_Witness ==
    /\ event.op = "change"
    /\ IsSome(event.graph)
    /\ The(event.graph).root = W
    /\ builds[W] = 2
    /\ removals[W] = 1

-----------------------------------------------------------------------------
(* Imports, directives, completion and diagnostics: claims *)

\* The module a finding of collectImportDiagnostics names in its message
ModuleOfFinding(d) == d.message[Len(d.message)]

\* C4: no finding for an import of a 'zenith:' module has severity Error: a
\* finding that names a module outside the plugin registry is Information, a
\* finding that names a registered plugin module is Warning.
C4_PluginFindingsNeverError ==
    Returned("collectImportDiagnostics")
    => \A i \in 1..Len(The(call.result).diagnostics) :
          LET d == The(call.result).diagnostics[i]
              registered == ModuleOfFinding(d) \in SeqToSet(getPluginModuleNames)
          IN  startsWith(ModuleOfFinding(d), <<"z","e","n","i","t","h",":">>)
              => /\ d.severity # "Error"
                 /\ ~registered => d.severity = "Information"
                 /\ registered => d.severity = "Warning"

\* A script that imports from an unregistered plugin and imports a name a
\* registered plugin does not export: one finding of each severity
C4_Witness ==
    /\ Returned("collectImportDiagnostics")
    /\ \E i, j \in 1..Len(The(call.result).diagnostics) :
          LET d == The(call.result).diagnostics[i]
              e == The(call.result).diagnostics[j]
          IN  /\ d.severity = "Information"
              /\ ModuleOfFinding(d) = <<"z","e","n","i","t","h",":","f","o","o">>
              /\ e.severity = "Warning"
              /\ ModuleOfFinding(e) = <<"z","e","n","i","t","h",":","c","o","n","t","e","n","t">>

\* C5: resolveModule classifies a specifier as core, known and with the core
\* table's metadata exactly when it is a key of the core registry; otherwise
\* as plugin when it begins with 'zenith:', known and with metadata exactly
\* when it is a key of the plugin registry; otherwise as external, not known
\* and without metadata.
C5_ResolveModuleClassifies ==
    LET \* The entry of a registry written under exactly this key
        EntryOf(table, key) == table[CHOOSE i \in 1..Len(table) : table[i].module = key]
    IN  Returned("resolveModule")
        => LET specifier == call.args
               resolved == The(call.result)
               isCore == specifier \in SeqToSet(getCoreModuleNames)
               isPlugin == ~isCore /\ startsWith(specifier, <<"z","e","n","i","t","h",":">>)
               isRegistered == specifier \in SeqToSet(getPluginModuleNames)
           IN  /\ resolved.module = specifier
               /\ resolved.kind = (IF isCore THEN "core" ELSE IF isPlugin THEN "plugin" ELSE "external")
               /\ isCore => /\ resolved.isKnown
                            /\ resolved.metadata = Some(EntryOf(CORE_MODULES, specifier))
               /\ isPlugin => /\ resolved.isKnown = isRegistered
                              /\ resolved.metadata = (IF isRegistered
                                                      THEN Some(EntryOf(PLUGIN_MODULES, specifier))
                                                      ELSE None)
               /\ (~isCore /\ ~isPlugin) => (~resolved.isKnown /\ resolved.metadata = None)

\* s[from, to) is white space only, is an identifier, holds no line terminator
AllSpace(s, from, to) == \A k \in from..(to - 1) : At(s, k) \in Space

\* s is 'ident in source' or 'ident, ident in source': an identifier, the
\* optional index part, white space, 'in', white space, a source of at least
\* one character on one line, white space to the end
ForForm(s) ==
    LET IsIdent(from, to) ==
            /\ from < to
            /\ At(s, from) \in IdentStart
            /\ \A k \in (from + 1)..(to - 1) : At(s, k) \in IdentRest
        OnOneLine(from, to) == \A k \in from..(to - 1) : At(s, k) \notin LineTerminators
        \* s[from, to) is ', ident', white space allowed around the comma
        IndexPart(from, to) ==
            \E x \in from..(to - 1) :
                /\ AllSpace(s, from, x)
                /\ At(s, x) = ","
                /\ \E y \in (x + 1)..(to - 1) : AllSpace(s, x + 1, y) /\ IsIdent(y, to)
    IN  \E a \in 0..Len(s) :
            /\ AllSpace(s, 0, a)
            /\ \E b \in (a + 1)..Len(s) :
                  /\ IsIdent(a, b)
                  /\ \E c \in b..Len(s) :
                        /\ c = b \/ IndexPart(b, c)
                        /\ \E d \in (c + 1)..Len(s) :
                              /\ AllSpace(s, c, d)
                              /\ LitAt(s, d, <<"i","n">>)
                              /\ \E e \in (d + 3)..Len(s) :
                                    /\ AllSpace(s, d + 2, e)
                                    /\ \E f \in (e + 1)..Len(s) :
                                          OnOneLine(e, f) /\ AllSpace(s, f, Len(s))

\* C6: parseForExpression returns a result exactly for the values of the form
\* 'ident in source' or 'ident, ident in source', the source trimmed: for
\* "item in items" and "item, index in items" the result holds the names and
\* the source; for "in items", "item items" and "" it is null.
C6_ForExpressionForm ==
    Returned("parseForExpression")
    => LET expression == call.args
           parsed == The(call.result)
       IN  /\ IsSome(parsed) = ForForm(expression)
           /\ IsSome(parsed) => The(parsed).source = trim(The(parsed).source)
           /\ expression = <<"i","t","e","m"," ","i","n"," ","i","t","e","m","s">>
                 => parsed = Some([ itemVar |-> <<"i","t","e","m">>, indexVar |-> None,
                                    source |-> <<"i","t","e","m","s">> ])
           /\ expression = <<"i","t","e","m",","," ","i","n","d","e","x"," ","i","n"," ","i","t","e","m","s">>
                 => parsed = Some([ itemVar |-> <<"i","t","e","m">>, indexVar |-> Some(<<"i","n","d","e","x">>),
                                    source |-> <<"i","t","e","m","s">> ])
           /\ expression \in { <<"i","n"," ","i","t","e","m","s">>, <<"i","t","e","m"," ","i","t","e","m","s">>, << >> } => parsed = None

\* The form with an index has been parsed
C6_Witness ==
    /\ Returned("parseForExpression")
    /\ call.args = <<"i","t","e","m",","," ","i","n","d","e","x"," ","i","n"," ","i","t","e","m","s">>
    /\ IsSome(The(call.result))
    /\ The(The(call.result)).indexVar = Some(<<"i","n","d","e","x">>)

\* The text has a script block that declares 'state count = 0' and, outside
\* the block, '{count}'
CountDocument(text) ==
    LET open == indexOf(text, <<"<","s","c","r","i","p","t",">">>)
        close == indexOf(text, <<"<","/","s","c","r","i","p","t",">">>)
        declared == indexOf(text, <<"s","t","a","t","e"," ","c","o","u","n","t"," ","="," ","0">>)
        brace == indexOf(text, <<"{","c","o","u","n","t","}">>)
    IN  /\ open >= 0
        /\ open < declared
        /\ declared < close
        /\ brace >= 0
        /\ brace + 7 <= open \/ brace >= close + 9

\* Whether the offset of the position lies between the braces of '{count}'
BetweenBraces(text, position) ==
    LET brace == indexOf(text, <<"{","c","o","u","n","t","}">>)
        offset == offsetAt(text, position)
    IN  brace < offset /\ offset <= brace + 6

\* Whether the items hold one labelled 'count' in the top tier
OffersCount(items) ==
    \E i \in 1..Len(items) :
        /\ items[i].label = <<"c","o","u","n","t">>
        /\ IsSome(items[i].sortText)
        /\ startsWith(The(items[i].sortText), <<"0","_">>)

LineOf(text, offset) == Cardinality({ k \in 0..(offset - 1) : At(text, k) = "\n" })

ColumnOf(text, offset) ==
    Cardinality({ k \in 0..(offset - 1) : \A j \in k..(offset - 1) : At(text, j) # "\n" })

\* The findings about Foo among those sent for the document
FooFindings ==
    IF sent = << >> THEN << >>
    ELSE SelectSeq(sent[1].diagnostics,
                   LAMBDA d : d.message = << "Unknown component", <<"F","o","o">> >>)

\* The text holds one '<Foo />' tag and the graph has no Foo
OneUnknownFoo(text, graph) ==
    /\ indexOf(text, <<"<","F","o","o"," ","/",">">>) >= 0
    /\ IndexOfFrom(text, <<"<","F","o","o">>, indexOf(text, <<"<","F","o","o"," ","/",">">>) + 1) < 0
    /\ ~has(graph.layouts, <<"F","o","o">>)
    /\ ~has(graph.components, <<"F","o","o">>)

C9_InsideScriptIsScript ==
    Returned("getPositionContext")
    => LET document == call.args.document
           offset == call.args.offset
           ctx == The(call.result)
       IN  (document.contentStart < offset /\ offset < document.contentEnd)
           => (ctx.inScript /\ ~ctx.inTemplate /\ ~ctx.inStyle /\ ~ctx.inExpression)

\* C10: extractStates maps every name a line of the script declares to the
\* trimmed initializer of the last line that declares it, the initializer
\* running up to the first ';' or the end of the line.
C10_StatesOfDeclarations ==
    LET \* What a line declares: 'state', white space, a name, '=', and an
        \* initializer that runs up to the first ';' of the line and is not blank
        LineDeclaration(line) ==
            LET at == indexOf(line, <<"s","t","a","t","e">>)
                name == SkipIn(line, at + 5, Space)
                nameEnd == SkipIn(line, name + 1, IdentRest)
                equals == SkipIn(line, nameEnd, Space)
                semicolon == indexOf(line, <<";">>)
                stop == IF semicolon > equals THEN semicolon ELSE Len(line)
            IN  IF /\ at >= 0
                   /\ AllSpace(line, 0, at)
                   /\ name > at + 5
                   /\ name < Len(line)
                   /\ At(line, name) \in IdentStart
                   /\ equals < Len(line)
                   /\ At(line, equals) = "="
                   /\ trim(substring(line, equals + 1, stop)) # << >>
                THEN Some([ name |-> substring(line, name, nameEnd),
                            value |-> trim(substring(line, equals + 1, stop)) ])
                ELSE None
    IN  Returned("extractStates")
        => LET lines == split(call.args, "\n")
               states == The(call.result)
               Declares(i, name) == /\ IsSome(LineDeclaration(lines[i]))
                                    /\ The(LineDeclaration(lines[i])).name = name
           IN  \A i \in 1..Len(lines) :
                  IsSome(LineDeclaration(lines[i]))
                  => LET name == The(LineDeclaration(lines[i])).name
                         last == Greatest({ j \in 1..Len(lines) : Declares(j, name) }, 0)
                     IN  /\ MapHas(states, name)
                         /\ MapGet(states, name) = The(LineDeclaration(lines[last])).value

-----------------------------------------------------------------------------
(* The handlers of the session: claims *)

\* C11: validateDocument runs to completion for every document text and
\* sends exactly one diagnostics notification, for the URI of the document.
C11_ValidateSendsOne ==
    event.op \in { "open", "change" }
    => /\ Len(sent) = 1
       /\ sent[1].uri = The(event.uri)

\* The context getPositionContext gives for the request the event is about
ContextOfRequest ==
    getPositionContext(DocumentOf(The(event.uri)).text,
                       offsetAt(DocumentOf(The(event.uri)).text, event.position))

\* C12: the symbols a completion returns (states, functions, loop variables,
\* hooks, handler functions: the suggestions of kind Variable or Function,
\* whose label is the candidate's name) all start, case-insensitively, with
\* the partial identifier under the cursor when one exists.
C12_TiersFilterByWord ==
    (event.op = "completion" /\ IsOpen(The(event.uri)) /\ IsSome(reply))
    => \A i \in 1..Len(The(reply)) :
          The(reply)[i].kind \in { "Variable", "Function" }
          => WordFits(The(reply)[i].label, ContextOfRequest.currentWord)

\* The word under an offset as the hover takes it: the longest run of word
\* characters that ends at the offset, then the one that starts there
WordUnder(text, offset) ==
    LET before == WordChars \cup { "$", ":", "@", "-" }
        after == WordChars \cup { "$", ":", "-" }
        start == Least({ k \in 0..offset : \A j \in k..(offset - 1) : At(text, j) \in before },
                       offset)
        stop == Greatest({ e \in offset..Len(text) : \A j \in offset..(e - 1) : At(text, j) \in after },
                         offset)
    IN  SubSeq(text, start + 1, stop)

\* The knowledge sources a word matches in a document with the project graph
\* given (None without one), as the places of the fixed order; the directive
\* table is asked with isDirective
SourcesOf(word, text, graph) ==
    LET script == getScriptContent(text)
        imports == parseZenithImports(script)
        functions == extractFunctions(script)
    IN  { k \in 1..9 :
            CASE k = 1 -> isDirective(word)
              [] k = 2 -> \E i \in 1..Len(ROUTER_HOOKS) : ROUTER_HOOKS[i].name = word
              [] k = 3 -> \E i \in 1..Len(LIFECYCLE_HOOKS) : LIFECYCLE_HOOKS[i].name = word
              [] k = 4 -> /\ word = <<"Z","e","n","L","i","n","k">>
                          /\ \E i \in 1..Len(imports) : imports[i].module = <<"z","e","n","i","t","h","/","r","o","u","t","e","r">>
              [] k = 5 -> MapHas(extractStates(script), word)
              [] k = 6 -> \E i \in 1..Len(functions) : functions[i].name = word
              [] k = 7 -> \E i \in 1..Len(imports) :
                             /\ word \in SeqToSet(imports[i].specifiers)
                             /\ \E table \in { CORE_MODULES, PLUGIN_MODULES } :
                                   \E m \in 1..Len(table) :
                                      /\ table[m].module = imports[i].module
                                      /\ \E e \in 1..Len(table[m].exports) :
                                            table[m].exports[e].name = word
              [] k = 8 -> /\ IsSome(graph)
                          /\ (has(The(graph).layouts, word) \/ has(The(graph).components, word))
              [] OTHER -> \E i \in 1..Len(HTML_ELEMENTS) : HTML_ELEMENTS[i].tag = word }

\* The sources an explanation may name, by place in the fixed order
SourceNames ==
    << { "directive" }, { "router hook" }, { "lifecycle hook" }, { "router component" },
       { "state" }, { "function" }, { "import" }, { "layout", "component" }, { "HTML" } >>

\* The sources for the word of the hover request the event is about
SourcesOfRequest ==
    SourcesOf(WordUnder(DocumentOf(The(event.uri)).text,
                        offsetAt(DocumentOf(The(event.uri)).text, event.position)),
              DocumentOf(The(event.uri)).text,
              GetGraph(projectGraphs, builds, The(event.uri)).graph)

MissingFrom(findings, notifications) ==
    { i \in 1..Len(findings) :
        \/ notifications = << >>
        \/ findings[i] \notin SeqToSet(notifications[1].diagnostics) }

\* C14: every finding that the directive check, the import check or the
\* expression check has for the text of a document is among the findings
\* sent for it, whatever the other checks found or did.
C14_AllChecksReported ==
    event.op \in { "open", "change" }
    => /\ MissingFrom(collectDirectiveDiagnostics(DocumentOf(The(event.uri)).text), sent) = {}
       /\ MissingFrom(collectImportDiagnostics(DocumentOf(The(event.uri)).text).diagnostics,
                      sent) = {}
       /\ MissingFrom(collectExpressionDiagnostics(DocumentOf(The(event.uri)).text), sent) = {}

\* A suggestion of the template region: a component or an element name, a
\* directive, an event or binding attribute, a component prop, an HTML
\* attribute (the script tiers hold keywords, functions, variables, modules)
IsTemplateSuggestion(item) ==
    \/ item.kind \in { "Class", "Event", "Property" }
    \/ startsWith(item.label, <<"z","e","n",":">>)

\* C15: at an offset where getPositionContext reports inScript or inStyle a
\* completion returns no suggestion of the template region.
C15_ScriptBeforeTemplate ==
    (/\ event.op = "completion" /\ IsOpen(The(event.uri)) /\ IsSome(reply)
     /\ (ContextOfRequest.inScript \/ ContextOfRequest.inStyle))
    => \A i \in 1..Len(The(reply)) : ~IsTemplateSuggestion(The(reply)[i])

\* The order of sort keys: strings compare character by character, in the
\* order of the character codes
CodeOrder == <<"$","-",".","0","1","2","3","4","5","6","7","8","9",":","@","A","B","C","D","E","F","G","H","I","J","K","L","M","N","O","P","Q","R","S","T","U","V","W","X","Y","Z","_","a","b","c","d","e","f","g","h","i","j","k","l","m","n","o","p","q","r","s","t","u","v","w","x","y","z">>

CodeOf(c) == CHOOSE k \in 1..Len(CodeOrder) : CodeOrder[k] = c

SortsBefore(a, b) ==
    \E k \in 1..(Min(Len(a), Len(b)) + 1) :
        /\ \A j \in 1..(k - 1) : a[j] = b[j]
        /\ \/ k > Len(a) /\ k <= Len(b)
           \/ k <= Len(a) /\ k <= Len(b) /\ CodeOf(a[k]) < CodeOf(b[k])

\* The classes of suggestions the order is about
IsFrameworkSuggestion(item) ==
    \/ item.kind \in { "Variable", "Function", "Keyword", "Class" }
    \/ item.kind = "Property" /\ startsWith(item.detail, <<"p","r","o","p"," ","o","f">>)

IsElementSuggestion(item) == item.kind = "Property" /\ item.detail = <<"H","T","M","L">>

IsAttributeSuggestion(item) == item.kind = "Property" /\ item.detail = <<"H","T","M","L"," ","a","t","t","r","i","b","u","t","e">>

\* C16: every suggestion of a completion carries a sort key, and in one list
\* the keys of the framework-declared suggestions order before those of the
\* HTML elements, which order before those of the HTML attributes.
C16_SortKeysOrdered ==
    (event.op = "completion" /\ IsSome(reply))
    => /\ \A i \in 1..Len(The(reply)) : IsSome(The(reply)[i].sortText)
       /\ \A i, j \in 1..Len(The(reply)) :
             (\/ IsFrameworkSuggestion(The(reply)[i]) /\ IsElementSuggestion(The(reply)[j])
              \/ IsFrameworkSuggestion(The(reply)[i]) /\ IsAttributeSuggestion(The(reply)[j])
              \/ IsElementSuggestion(The(reply)[i]) /\ IsAttributeSuggestion(The(reply)[j]))
             => SortsBefore(The(The(reply)[i].sortText), The(The(reply)[j].sortText))

\* The graph cached for the project of a document (None without a project)
CachedGraphOf(cache, disk, uri) ==
    IF IsSome(RootOfIn(disk, uri)) /\ has(cache, The(RootOfIn(disk, uri)))
    THEN Some(cache[The(RootOfIn(disk, uri))])
    ELSE None

C19_UnexportedNamesWarned ==
    Returned("collectImportDiagnostics") =>
        LET Unexported(imp, resolved) ==
                IF ~(resolved.isKnown /\ IsSome(resolved.metadata)) THEN {}
                ELSE { imp.specifiers[k] : k \in 1..Len(imp.specifiers) }
                       \ { The(resolved.metadata).exports[j].name :
                             j \in 1..Len(The(resolved.metadata).exports) }
            Warned(imports, findings) ==
                \A i \in 1..Len(imports) :
                    \A name \in Unexported(imports[i], resolveModule(imports[i].module)) :
                        \E j \in 1..Len(findings) :
                            /\ findings[j].severity = "Warning"
                            /\ findings[j].message = << "is not exported from", name, imports[i].module >>
        IN  Warned(parseZenithImports(getScriptContent(call.args)), The(call.result).diagnostics)

\* C20: the entries parseZenithImports returns are, in line order, one for each
\* line of the script that holds an import statement whose module specifier
\* begins with 'zenith', with the 1-based number of the line, the specifier,
\* and the names the statement imports (the name before 'as' for an alias, no
\* name for a side-effect import); no other line has an entry.
C20_OneEntryPerZenithImport ==
    Returned("parseZenithImports") =>
        LET InfoOf(text) == CHOOSE l \in ParseLines : l.text = text
            Retained(l) ==
                /\ IsSome(l.module) /\ Len(The(l.module)) >= 6
                /\ SubSeq(The(l.module), 1, 6) = <<"z","e","n","i","t","h">>
            RECURSIVE Expected(_, _)
            Expected(lines, k) ==
                IF k > Len(lines) THEN << >>
                ELSE (IF Retained(InfoOf(lines[k]))
                      THEN << [ module |-> The(InfoOf(lines[k]).module),
                                specifiers |-> InfoOf(lines[k]).names, line |-> k ] >>
                      ELSE << >>) \o Expected(lines, k + 1)
            Entries(imports) ==
                [ i \in 1..Len(imports) |->
                    [ module |-> imports[i].module, specifiers |-> imports[i].specifiers,
                      line |-> imports[i].line ] ]
        IN  Entries(The(call.result)) = Expected(split(call.args, <<"\n">>), 1)

\* C21: extractFunctions returns one entry for each function the script
\* declares, as a function declaration or as an arrow function bound with
\* const or let, holding the name, the text between the parentheses of the
\* parameter list and whether it is async; it returns no other entry.
C21_FunctionEntries ==
    Returned("extractFunctions") =>
        LET Declared(lines) ==
                { [ line |-> k, fn |-> The((CHOOSE l \in FunctionLines : l.text = lines[k]).declared) ] :
                    k \in { j \in 1..Len(lines) :
                              IsSome((CHOOSE l \in FunctionLines : l.text = lines[j]).declared) } }
            Agree(declared, functions) ==
                /\ Len(functions) = Cardinality(declared)
                /\ \A d \in declared : \E i \in 1..Len(functions) : functions[i] = d.fn
        IN  Agree(Declared(split(call.args, <<"\n">>)), The(call.result))

\* C22: a hover on a word that is empty, or is no key of the directive table
\* and matches none of the other sources (router hook, lifecycle hook, ZenLink
\* with the router imported, declared state, declared function, imported name
\* with export metadata, layout or component of the graph, HTML element), gets
\* no explanation.
C22_NoSourceNoHover ==
    (/\ event.op = "hover" /\ IsOpen(The(event.uri))
     /\ SourcesOfRequest \subseteq { 1 }
     /\ WordUnder(DocumentOf(The(event.uri)).text,
                  offsetAt(DocumentOf(The(event.uri)).text, event.position))
           \notin SeqToSet(DirectiveNames))
    => reply = None

\* The labels of the suggestions of a kind in the reply to a completion
LabelsOf(kind) ==
    { The(reply)[i].label : i \in { j \in 1..Len(The(reply)) : The(reply)[j].kind = kind } }

\* C23: a completion in the template region, outside every expression and
\* attribute value, in a project with a graph, with a partial identifier that
\* is empty or begins with an uppercase letter, offers every layout and every
\* component of the graph whose name starts, case-insensitively, with the
\* partial identifier.
C23_ComponentsOffered ==
    (/\ event.op = "completion" /\ IsOpen(The(event.uri)) /\ IsSome(event.graph)
     /\ ContextOfRequest.inTemplate
     /\ ~ContextOfRequest.inExpression /\ ~ContextOfRequest.inAttributeValue
     /\ (ContextOfRequest.currentWord = << >> \/ ContextOfRequest.currentWord[1] \in Upper))
    => \A name \in (DOMAIN The(event.graph).layouts) \cup (DOMAIN The(event.graph).components) :
          WordFits(name, ContextOfRequest.currentWord) => name \in LabelsOf("Class")

HasProjectMarks(disk, d) ==
    \/ Append(d, <<"z","e","n","i","t","h",".","c","o","n","f","i","g",".","t","s">>) \in disk
    \/ \E sub \in { <<"s","r","c">>, <<"a","p","p">> } :
          /\ Append(d, sub) \in disk
          /\ \E kind \in { <<"p","a","g","e","s">>, <<"l","a","y","o","u","t","s">> } : Append(Append(d, sub), kind) \in disk

\* C25: detectProjectRoot returns the nearest directory with the marks of a
\* project among the start directory and all its ancestors, the filesystem
\* root included, and returns nothing exactly when none of them has the marks.
C25_NearestMarkedDirectory ==
    Returned("detectProjectRoot") =>
        LET Marked(disk, start) ==
                { k \in 0..Len(start) : HasProjectMarks(disk, SubSeq(start, 1, k)) }
            Nearest(start, marked) ==
                IF marked = {} THEN None
                ELSE Some(SubSeq(start, 1, CHOOSE k \in marked : \A j \in marked : j <= k))
        IN  The(call.result) = Nearest(call.args.start, Marked(call.args.disk, call.args.start))

\* C26: when a root has the marks of a project in its app directory and not in
\* its src directory, the graph built for it holds the .zen files under
\* app/layouts and app/pages, whether or not a src directory exists; when it
\* has them in its src directory, the graph holds the files under src.
C26_GraphOfDetectedDirectory ==
    Returned("buildProjectGraph") =>
        LET disk == call.args.disk
            graph == The(call.result)
            Marks(dir) == dir \in disk /\ (Append(dir, <<"p","a","g","e","s">>) \in disk \/ Append(dir, <<"l","a","y","o","u","t","s">>) \in disk)
            Names(dir, kind) ==
                { SubSeq(p[4], 1, Len(p[4]) - 4) :
                    p \in { q \in disk : Len(q) = 4 /\ SubSeq(q, 1, 3) = Append(dir, kind) } }
            Holds(dir) ==
                /\ DOMAIN graph.layouts = Names(dir, <<"l","a","y","o","u","t","s">>)
                /\ DOMAIN graph.pages = Names(dir, <<"p","a","g","e","s">>)
                /\ DOMAIN graph.components = Names(dir, <<"c","o","m","p","o","n","e","n","t","s">>)
        IN  /\ Marks(WSrc) => Holds(WSrc)
            /\ (~Marks(WSrc) /\ Marks(WApp)) => Holds(WApp)

\* C27: the context getPositionContext returns is consistent: inTemplate is
\* true exactly when neither inScript nor inStyle is, inExpression implies
\* inTemplate, inAttributeValue implies inTag, a tag name implies inTag; and
\* at offset 0 it is the template region with no tag, no tag name, no
\* expression, no attribute value and an empty partial identifier.
C27_ContextConsistent ==
    Returned("getPositionContext") =>
        LET ctx == The(call.result)
        IN  /\ ctx.inTemplate <=> (~ctx.inScript /\ ~ctx.inStyle)
            /\ ctx.inExpression => ctx.inTemplate
            /\ ctx.inAttributeValue => ctx.inTag
            /\ IsSome(ctx.tagName) => ctx.inTag
            /\ call.args.offset = 0 =>
                   /\ ctx.inTemplate /\ ~ctx.inScript /\ ~ctx.inStyle
                   /\ ~ctx.inTag /\ ~ctx.inExpression /\ ~ctx.inAttributeValue
                   /\ ctx.tagName = None /\ ctx.currentWord = << >>

\* An offset inside the attribute value of the p tag after the script: in
\* the template, in the tag p, in an attribute value
C27_Witness ==
    /\ Returned("getPositionContext")
    /\ The(call.result).inTemplate /\ The(call.result).inTag
    /\ The(call.result).inAttributeValue
    /\ The(call.result).tagName = Some(<<"p">>)
    /\ ~The(call.result).inExpression

\* C28: every import parseZenithImports retains from the script of a document
\* is classified by resolveModule as core or plugin, and when its module is in
\* neither registry the list collectImportDiagnostics leaves has a finding
\* that names the module.
C28_RetainedImportsClassified ==
    Returned("collectImportDiagnostics") =>
        LET Registered(module) ==
                \E table \in { CORE_MODULES, PLUGIN_MODULES } :
                   \E i \in 1..Len(table) : table[i].module = module
            Reported(module, findings) ==
                \E j \in 1..Len(findings) : ModuleOfFinding(findings[j]) = module
            Covered(imports, findings) ==
                \A i \in 1..Len(imports) :
                    /\ resolveModule(imports[i].module).kind \in { "core", "plugin" }
                    /\ ~Registered(imports[i].module) => Reported(imports[i].module, findings)
        IN  Covered(parseZenithImports(getScriptContent(call.args)), The(call.result).diagnostics)

OpenRootsIn(f, docs) ==
    { The(RootOfIn(f, docs[i].uri)) : i \in { j \in 1..Len(docs) : IsSome(RootOfIn(f, docs[j].uri)) } }

\* C30: whatever the handlers that ran, every entry of the project-graph cache
\* is under the root its graph names and holds what buildProjectGraph gave for
\* that root when the entry was stored; an entry appears only where
\* getProjectGraph built it, for the root of the request's document (of an open
\* document, in a file-system notification), and disappears only where
\* invalidateProjectGraph deleted it, for a root of the notification's URIs; a
\* request for a document without a detectable root leaves the cache as it
\* was and gets no graph.
C30_CacheEntriesBuiltForTheirRoot ==
    [][ /\ \A r \in DOMAIN projectGraphs' :
              /\ projectGraphs'[r].root = r
              /\ \/ /\ has(projectGraphs, r)
                    /\ projectGraphs'[r] = projectGraphs[r]
                    /\ builds'[r] = builds[r]
                    /\ (removals'[r] = removals[r] \/ event'.op = "watched")
                 \/ /\ projectGraphs'[r] = [ obj |-> builds'[r] ] @@ BuildIn(fs', r)
                    /\ builds'[r] = builds[r] + 1
                    /\ IF event'.op = "watched"
                       THEN /\ r \in OpenRootsIn(fs', documents')
                            /\ has(projectGraphs, r) => r \in event'.roots
                       ELSE /\ event'.op \in { "open", "change", "completion", "hover" }
                            /\ ~has(projectGraphs, r)
                            /\ RootOfIn(fs', The(event'.uri)) = Some(r)
                            /\ event'.graph = Some(projectGraphs'[r])
        /\ \A r \in DOMAIN projectGraphs \ DOMAIN projectGraphs' :
              /\ event'.op = "watched"
              /\ r \in event'.roots
              /\ removals'[r] = removals[r] + 1
        /\ ( /\ event'.op \in { "open", "change", "completion", "hover" }
             /\ \E i \in 1..Len(documents') : documents'[i].uri = The(event'.uri)
             /\ RootOfIn(fs', The(event'.uri)) = None )
           => /\ projectGraphs' = projectGraphs
              /\ event'.graph = None
      ]_vars

\* A hover request for an open document of no project has been answered
\* while the graph of another project stays cached
C30_Witness ==
    /\ event.op = "hover"
    /\ \E i \in 1..Len(documents) : documents[i].uri = The(event.uri)
    /\ RootOfIn(fs, The(event.uri)) = None
    /\ event.graph = None
    /\ projectGraphs # << >>

====
